---- MODULE Spec2Model ----
(***************************************************************************)
(* Capture lifecycle of gtd-backend: the persistent capture and anchor     *)
(* rows, the commit worker (app/rtm_commit.py) with the retry decorator    *)
(* and circuit breaker it calls RTM through (app/http_utils.py, app/rtm.py),*)
(* the clarification worker (app/clarification.py) and the approval        *)
(* request handlers (app/main.py).                                         *)
(***************************************************************************)
EXTENDS Integers, Sequences, FiniteSets, TLC

\* ------------------------------------------------------------------ bounds
NumCaptures == 2
MaxRtmTasks == 2
MaxFailureCount == 6
MaxDay == 1
MaxCommitCount == 6
NumRequests == 2
MaxCalls == 10
NumTasks == 2
MaxTx == 5
MaxSchedDay == 1
MaxRuns == 2
MaxLlmCalls == 4
NumThreads == 2
NumRunTasks == 6
MaxTagFailures == 1

\* ------------------------------------------------------- program constants
MAX_COMMIT_ATTEMPTS == 5
MAX_CLARIFY_ATTEMPTS == 5
max_retries == 3
failure_threshold == 5
ts_max_retries == 5
MAX_SUGGESTIONS_14D == 3
SUGGESTION_WINDOW_DAYS == 14
RECENT_DAYS == 7
BAND_A_LIMIT == 5
BAND_B_LIMIT == 5
llm_max_retries == 3
FINAL_SELECT == 5
OLD_TASK_DAYS == 30

Captures == 1..NumCaptures
Requests == 1..NumRequests
NoCapture == 0
\* A date or datetime column that is NULL, a variable that is None
NoDate == 0 - 1

\* ---------------------------------------------------------------- state
VARIABLES
    \* persistent store: captures table (app/models.py Capture)
    decision_status,        \* [Captures -> "proposed" | "approved" | "rejected"]
    clarify_status,         \* [Captures -> "pending" | "in_progress" | ...]
    clarify_attempt_count,  \* [Captures -> Nat]
    clarify_json,           \* [Captures -> abstract content of the JSON text]
    commit_status,          \* [Captures -> "pending" | "committed" | ...]
    commit_attempt_count,   \* [Captures -> Nat]
    rtm_task_id,            \* [Captures -> 0 (NULL) or the id of an RTM task]
    \* persistent store: anchors table (app/models.py Anchor), in insertion order
    anchors,
    \* the external task manager: tasks created, per capture and commit entry
    rtm_tasks,
    anchor_tasks,           \* reminder tasks created in RTM
    today,                  \* date.today()
    \* process memory
    cb,                     \* the "rtm_api" CircuitBreaker object
    cw,                     \* locals of the commit worker thread
    cl,                     \* locals of the clarification worker thread
    req,                    \* approve/reject requests in flight
    \* history: a tasks.add request for the capture ended in a timeout
    add_timed_out,
    \* history: the user saved a clarification on the approved capture
    user_reset,
    \* _compute_commit_entries: its argument and the list it returned
    clar_arg,
    commit_entries,
    \* daily highlights: the rtm_tasks cache table, utcnow() and the pool built
    task_cache,
    utcnow,
    candidates,
    \* a caller of CircuitBreaker.call
    caller,
    \* a "with transactional_session(db)" block
    ts,
    \* the scheduler thread and the wall clock it reads
    sched,
    clock,
    \* the clarifier's calls of the LLM provider through _call_llm_api
    llm,
    \* approval_update_clarification: the form saved and the JSON stored
    form_save,
    \* threads that call through the "rtm_api" breaker at the same time
    threads,
    \* run_daily_highlights: where the job is and the lists it has computed
    hl_run

dbVars == <<decision_status, clarify_status, clarify_attempt_count, clarify_json,
            commit_status, commit_attempt_count, rtm_task_id, anchors>>
commitCols == <<commit_status, commit_attempt_count, rtm_task_id>>
clarifyCols == <<clarify_status, clarify_attempt_count>>
worldVars == <<rtm_tasks, anchor_tasks, today>>
histVars == <<add_timed_out, user_reset>>
\* The state of the components that do not take part in the capture lifecycle.
entryVars == <<clar_arg, commit_entries>>
highlightVars == <<task_cache, utcnow, candidates, hl_run>>
schedVars == <<sched, clock>>
auxVars == <<entryVars, highlightVars, caller, ts, schedVars, llm, form_save, threads>>
\* ... and of the capture lifecycle.
coreVars == <<dbVars, worldVars, cb, cw, cl, req, histVars>>
vars == <<decision_status, clarify_status, clarify_attempt_count, clarify_json,
          commit_status, commit_attempt_count, rtm_task_id, anchors,
          rtm_tasks, anchor_tasks, today, cb, cw, cl, req, add_timed_out, user_reset,
          clar_arg, commit_entries, task_cache, utcnow, candidates, caller, ts, sched, clock,
          llm, form_save, threads, hl_run>>

\* ------------------------------------------------------- clarification JSON
\* The stored clarify_json text, reduced to the two keys the commit path reads:
\* "type" and whether "project_shortname" is a non-empty string.  NULL is NoJson.
NoJson == [type |-> "null", project_shortname |-> FALSE]
Clar(t, s) == [type |-> t, project_shortname |-> s]
ErrorInfo == [type |-> "error", project_shortname |-> FALSE]
LlmResults == {Clar("next_action", FALSE), Clar("project", TRUE), Clar("project", FALSE)}
\* A JSON object whose "type" is a number: (clar.get("type") or "").strip()
\* raises AttributeError.
Unstrippable == [type |-> "number", project_shortname |-> FALSE]
StripRaises(clar) == clar.type = "number"
\* The bodies a client sends to PUT /captures/{id}/clarification (any JSON):
\* a clarification of a type the provider results above do not have, and one
\* that is not well-formed for the commit path.
ManualJsons == {Clar("non_actionable", FALSE), Unstrippable}

\* The approval form: which of its fields are filled in.
Forms == [project_name : BOOLEAN, is_next_action : BOOLEAN, project_shortname : BOOLEAN]

\* main.py: the type chosen by approve_capture / reject_capture, then clar.update
FormType(clar, form, default) ==
    IF form.project_name THEN "project"
    ELSE IF form.is_next_action THEN "next_action"
    ELSE IF clar.type = "null" THEN default ELSE clar.type

ApplyForm(clar, form, default) ==
    Clar(FormType(clar, form, default), form.project_shortname)

\* ------------------------------------------------------------- exceptions
\* An exception is its type name and the words of str(exc) that
\* _classify_commit_error looks for.
NoExc == [etype |-> "None", msg |-> {}]
UrlWords(url) == IF url THEN {"auth"} ELSE {}
ExcTimeout == [etype |-> "ReadTimeout", msg |-> {"timeout"}]
ExcConnection(url) == [etype |-> "ConnectionError", msg |-> {"connection"} \cup UrlWords(url)]
ExcServer(url) == [etype |-> "HTTPError", msg |-> {"server", "500"} \cup UrlWords(url)]
ExcHttpAuth == [etype |-> "HTTPError", msg |-> {"401", "auth"}]
ExcCircuit == [etype |-> "RuntimeError", msg |-> {"circuit"}]
ExcRtmAuth == [etype |-> "RuntimeError", msg |-> {"auth"}]
ExcRtmOther == [etype |-> "RuntimeError", msg |-> {}]

TimeoutInTypeName(etype) == etype \in {"Timeout", "ReadTimeout", "ConnectTimeout"}

\* rtm_commit.py _classify_commit_error: the status of the (status, message) pair
_classify_commit_error(exc) ==
    IF TimeoutInTypeName(exc.etype) \/ "timeout" \in exc.msg THEN "unknown"
    ELSE IF {"auth", "401", "403"} \cap exc.msg # {} THEN "auth_failed"
    ELSE IF "circuit" \in exc.msg THEN "failed"
    ELSE IF {"connection", "network", "server", "500", "503"} \cap exc.msg # {} THEN "failed"
    ELSE "failed"

\* --------------------------------------------------------- circuit breaker
\* http_utils.py CircuitBreaker; recovery_elapsed stands for
\* time.time() - last_failure_time >= recovery_timeout.
CbInit == [state |-> "CLOSED", failure_count |-> 0, recovery_elapsed |-> FALSE]

_should_attempt_recovery(b) == b.recovery_elapsed

_on_success(b) == [b EXCEPT !.failure_count = 0, !.state = "CLOSED"]

\* A breaker that opens one failure later than the threshold.
_on_failure_late(b) ==
    [b EXCEPT !.failure_count = b.failure_count + 1,
              !.recovery_elapsed = FALSE,
              !.state = IF b.failure_count + 1 > failure_threshold THEN "OPEN" ELSE b.state]

\* CircuitBreaker._on_failure
_on_failure(b) ==
    [b EXCEPT !.failure_count = b.failure_count + 1,
              !.recovery_elapsed = FALSE,
              !.state = IF b.failure_count + 1 >= failure_threshold THEN "OPEN" ELSE b.state]

\* A breaker that lets every call through.
CbRefusesNever(b) == FALSE

\* CircuitBreaker.call up to the invocation of func: the breaker refuses the call
CbRefuses(b) == b.state = "OPEN" /\ ~_should_attempt_recovery(b)
\* ... or lets it through, HALF_OPEN when it was OPEN
CbEnter(b) == IF b.state = "OPEN" THEN [b EXCEPT !.state = "HALF_OPEN"] ELSE b

\* ------------------------------------------------------------ commit worker
\* Locals of the rtm-committer thread.  pc: "idle" (sleeping between polls),
\* "loop" (in _poll_once, between captures), "http" (inside _call_rtm_api, about
\* to invoke the wrapped function), "finish" (the RTM calls of a capture returned
\* or raised), "anchor_insert", "anchor_finish".  loaded is the clarify_json that
\* the query of _poll_once loaded for the first capture of the list; the
\* session's first commit expires it (expire_on_commit), so that the captures
\* after the first are read again when their turn comes.
CwIdle ==
    [pc |-> "idle", queue |-> <<>>, first |-> FALSE, loaded |-> NoJson,
     cur |-> NoCapture, ctx |-> "none",
     attempt |-> 0, entries |-> 0, entry |-> 0, method |-> "none", try |-> 0,
     exc |-> NoExc, first_id |-> 0, a_today |-> 0, a_exists |-> FALSE]

CaptureSeq == [i \in 1..NumCaptures |-> i]

\* A query that leaves out only the committed captures (what C2 rules out).
CommitFilterNotCommitted(c) ==
    /\ decision_status[c] = "approved"
    /\ commit_status[c] # "committed"

\* rtm_commit.py _poll_once: the query for captures ready to commit
CommitFilter(c) ==
    /\ decision_status[c] = "approved"
    /\ commit_status[c] \in {"pending", "failed"}

PendingCommits == SelectSeq(CaptureSeq, CommitFilter)

CommitPollStart ==
    /\ cw.pc = "idle"
    /\ cw' = [CwIdle EXCEPT !.pc = "loop", !.queue = PendingCommits,
                             !.first = TRUE,
                             !.loaded = IF PendingCommits = <<>> THEN NoJson
                                        ELSE clarify_json[Head(PendingCommits)]]
    /\ UNCHANGED <<dbVars, worldVars, cb, cl, req, histVars>>
    /\ UNCHANGED auxVars

\* rtm_commit.py _commit_one_capture up to the first RTM call
MissingShortname(clar) == clar.type = "project" /\ ~clar.project_shortname

CommitBegin ==
    /\ cw.pc = "loop"
    /\ cw.queue # <<>>
    /\ LET c == Head(cw.queue)
           clar == IF cw.first THEN cw.loaded ELSE clarify_json[c]
       IN IF StripRaises(clar)
          THEN \* the exception leaves _poll_once; run_commit_loop logs it and sleeps
               /\ cw' = CwIdle
               /\ UNCHANGED commit_status
          ELSE IF MissingShortname(clar)
          THEN /\ commit_status' = [commit_status EXCEPT ![c] = "failed"]
               /\ cw' = [cw EXCEPT !.queue = Tail(cw.queue),
                                   !.first = FALSE, !.loaded = NoJson]
          ELSE /\ cw' = [cw EXCEPT !.queue = Tail(cw.queue),
                                   !.first = FALSE, !.loaded = NoJson,
                                   !.cur = c, !.ctx = "capture",
                                   !.attempt = commit_attempt_count[c] + 1,
                                   !.entries = IF clar.type = "project" THEN 2 ELSE 1,
                                   !.entry = 0, !.first_id = 0,
                                   !.method = "rtm.timelines.create", !.try = 0,
                                   !.exc = NoExc, !.pc = "http"]
               /\ UNCHANGED commit_status
    /\ UNCHANGED <<decision_status, clarifyCols, clarify_json, commit_attempt_count,
                   rtm_task_id, anchors, worldVars, cb, cl, req, histVars>>
    /\ UNCHANGED auxVars

\* The caller of _call_rtm_api after it returned: create_timeline, add_task and
\* the loop over commit_entries (capture), or the anchor's three calls.
CwAfterOk(w, id) ==
    IF w.method = "rtm.tasks.getList"
    THEN [w EXCEPT !.pc = "anchor_insert", !.method = "none", !.try = 0]
    ELSE IF w.method = "rtm.timelines.create"
    THEN [w EXCEPT !.method = "rtm.tasks.add", !.entry = 1, !.try = 0]
    ELSE IF w.ctx = "capture"
    THEN IF w.entry < w.entries
         THEN [w EXCEPT !.entry = w.entry + 1, !.try = 0,
                        !.first_id = IF w.entry = 1 THEN id ELSE w.first_id]
         ELSE [w EXCEPT !.pc = "finish", !.method = "none", !.try = 0,
                        !.first_id = IF w.entry = 1 THEN id ELSE w.first_id]
    ELSE [w EXCEPT !.pc = "anchor_finish", !.method = "none", !.try = 0]

\* ... and after it raised exc
CwAfterRaise(w, exc) ==
    IF w.method = "rtm.tasks.getList"
    THEN CwIdle
    ELSE [w EXCEPT !.pc = IF w.ctx = "capture" THEN "finish" ELSE "anchor_finish",
                   !.method = "none", !.try = 0, !.exc = exc]

\* A wrapper whose loop runs one iteration too many.
CwAfterRetryableOneMore(w, exc) ==
    IF w.try <= max_retries
    THEN [w EXCEPT !.try = w.try + 1]
    ELSE CwAfterRaise(w, exc)

\* retry_with_backoff.wrapper: a retryable exception in iteration w.try
CwAfterRetryable(w, exc) ==
    IF w.try < max_retries
    THEN [w EXCEPT !.try = w.try + 1]
    ELSE CwAfterRaise(w, exc)

InHttp == cw.pc = "http"
AddsCaptureTask == InHttp /\ cw.method = "rtm.tasks.add" /\ cw.ctx = "capture"
AddsAnchorTask == InHttp /\ cw.method = "rtm.tasks.add" /\ cw.ctx = "anchor"

\* The external effect of one rtm.tasks.add request that reached RTM.
TaskCreated ==
    IF AddsCaptureTask
    THEN /\ rtm_tasks[cw.cur][cw.entry] < MaxRtmTasks
         /\ rtm_tasks' = [rtm_tasks EXCEPT ![cw.cur][cw.entry] = @ + 1]
         /\ UNCHANGED anchor_tasks
    ELSE IF AddsAnchorTask
    THEN /\ anchor_tasks < MaxRtmTasks
         /\ anchor_tasks' = anchor_tasks + 1
         /\ UNCHANGED rtm_tasks
    ELSE UNCHANGED <<rtm_tasks, anchor_tasks>>

NewTaskId == IF AddsCaptureTask THEN rtm_tasks[cw.cur][cw.entry] + 1 ELSE 0

CanFail == cb.failure_count < MaxFailureCount

\* CircuitBreaker.call raises RuntimeError: no request is sent; the wrapper's
\* "except Exception" re-raises it.
HttpRefused ==
    /\ InHttp
    /\ CbRefuses(cb)
    /\ cw' = CwAfterRaise(cw, ExcCircuit)
    /\ UNCHANGED <<dbVars, worldVars, cb, cl, req, histVars>>
    /\ UNCHANGED auxVars

\* The request succeeds and the response parses.
HttpOk ==
    /\ InHttp
    /\ ~CbRefuses(cb)
    /\ cb' = _on_success(CbEnter(cb))
    /\ TaskCreated
    /\ \E exists \in BOOLEAN :
          /\ cw.method # "rtm.tasks.getList" => exists = FALSE
          /\ cw' = [CwAfterOk(cw, NewTaskId) EXCEPT !.a_exists = exists]
    /\ UNCHANGED <<dbVars, today, cl, req, histVars>>
    /\ UNCHANGED auxVars

\* HTTP 200 whose body is an RTM error (stat="fail"): call() / add_task raise
\* RuntimeError after the wrapper returned.
HttpRtmFail ==
    /\ InHttp
    /\ ~CbRefuses(cb)
    /\ cb' = _on_success(CbEnter(cb))
    /\ \E exc \in {ExcRtmAuth, ExcRtmOther} : cw' = CwAfterRaise(cw, exc)
    /\ UNCHANGED <<dbVars, worldVars, cl, req, histVars>>
    /\ UNCHANGED auxVars

\* requests.Timeout: whether RTM executed the request is not known.
HttpTimeout ==
    /\ InHttp
    /\ ~CbRefuses(cb)
    /\ CanFail
    /\ cb' = _on_failure(CbEnter(cb))
    /\ \/ TaskCreated
       \/ UNCHANGED <<rtm_tasks, anchor_tasks>>
    /\ add_timed_out' = IF AddsCaptureTask
                        THEN [add_timed_out EXCEPT ![cw.cur] = TRUE]
                        ELSE add_timed_out
    /\ cw' = CwAfterRetryable(cw, ExcTimeout)
    /\ UNCHANGED <<dbVars, today, cl, req, user_reset>>
    /\ UNCHANGED auxVars

\* requests.ConnectionError, or HTTPError with status 429 / 5xx: not executed.
HttpRetryable ==
    /\ InHttp
    /\ ~CbRefuses(cb)
    /\ CanFail
    /\ cb' = _on_failure(CbEnter(cb))
    /\ \E url \in BOOLEAN : \E exc \in {ExcConnection(url), ExcServer(url)} :
          cw' = CwAfterRetryable(cw, exc)
    /\ UNCHANGED <<dbVars, worldVars, cl, req, histVars>>
    /\ UNCHANGED auxVars

\* HTTPError with status 401 / 403: raised at once.
HttpAuthError ==
    /\ InHttp
    /\ ~CbRefuses(cb)
    /\ CanFail
    /\ cb' = _on_failure(CbEnter(cb))
    /\ cw' = CwAfterRaise(cw, ExcHttpAuth)
    /\ UNCHANGED <<dbVars, worldVars, cl, req, histVars>>
    /\ UNCHANGED auxVars

\* A status that follows the error class for projects too.
FailureStatusClassified(exc, is_project, attempt) ==
    LET error_status == _classify_commit_error(exc)
    IN IF attempt >= MAX_COMMIT_ATTEMPTS
       THEN IF error_status # "unknown" THEN "permanently_failed" ELSE "unknown"
       ELSE IF error_status \in {"auth_failed", "unknown"} THEN error_status ELSE "failed"

\* rtm_commit.py _commit_one_capture after the RTM calls: the status stored
FailureStatus(exc, is_project, attempt) ==
    LET error_status == IF is_project THEN "unknown" ELSE _classify_commit_error(exc)
    IN IF attempt >= MAX_COMMIT_ATTEMPTS
       THEN IF error_status # "unknown" THEN "permanently_failed" ELSE "unknown"
       ELSE IF error_status \in {"auth_failed", "unknown"} THEN error_status ELSE "failed"

CwNextCapture == [CwIdle EXCEPT !.pc = "loop", !.queue = cw.queue]

\* A worker that marks the capture committed without storing the task ids.
CommitFinishWithoutIds ==
    /\ cw.pc = "finish"
    /\ LET c == cw.cur
       IN /\ commit_attempt_count' = [commit_attempt_count EXCEPT ![c] = cw.attempt]
          /\ commit_status' =
                [commit_status EXCEPT
                    ![c] = IF cw.exc = NoExc THEN "committed"
                           ELSE FailureStatus(cw.exc, cw.entries = 2, cw.attempt)]
          /\ UNCHANGED rtm_task_id
    /\ cw' = CwNextCapture
    /\ UNCHANGED <<decision_status, clarifyCols, clarify_json, anchors,
                   worldVars, cb, cl, req, histVars>>
    /\ UNCHANGED auxVars

CommitFinish ==
    /\ cw.pc = "finish"
    /\ LET c == cw.cur
       IN /\ commit_attempt_count' = [commit_attempt_count EXCEPT ![c] = cw.attempt]
          /\ IF cw.exc = NoExc
             THEN /\ commit_status' = [commit_status EXCEPT ![c] = "committed"]
                  /\ rtm_task_id' = [rtm_task_id EXCEPT ![c] = cw.first_id]
             ELSE /\ commit_status' =
                        [commit_status EXCEPT
                            ![c] = FailureStatus(cw.exc, cw.entries = 2, cw.attempt)]
                  /\ UNCHANGED rtm_task_id
    /\ cw' = CwNextCapture
    /\ UNCHANGED <<decision_status, clarifyCols, clarify_json, anchors,
                   worldVars, cb, cl, req, histVars>>
    /\ UNCHANGED auxVars

\* ----------------------------------------------------------- anchor manager
\* rtm_commit.py _get_active_anchor: is there a row the query returns
ActiveFor(a, day) == a.status = "active" /\ a.valid_until >= day

\* A validity test that ends one day early (what C10 rules out).
_get_active_anchor_strict(day) ==
    \E i \in 1..Len(anchors) : anchors[i].status = "active" /\ anchors[i].valid_until > day

_get_active_anchor(day) == \E i \in 1..Len(anchors) : ActiveFor(anchors[i], day)

\* rtm_commit.py _ensure_anchor_for_pending_approvals up to the existence query;
\* it runs when the loop over pending_commits is over.
AnchorBegin ==
    /\ cw.pc = "loop"
    /\ cw.queue = <<>>
    /\ LET has_proposed == \E c \in Captures : decision_status[c] = "proposed"
       IN IF ~has_proposed \/ _get_active_anchor(today)
          THEN cw' = CwIdle
          ELSE cw' = [CwIdle EXCEPT !.pc = "http", !.ctx = "anchor",
                                    !.method = "rtm.tasks.getList",
                                    !.a_today = today]
    /\ UNCHANGED <<dbVars, worldVars, cb, cl, req, histVars>>
    /\ UNCHANGED auxVars

\* The update that expires old active anchors.
ExpireOld(rows, day) ==
    [i \in 1..Len(rows) |->
        IF rows[i].status = "active" /\ rows[i].valid_until < day
        THEN [rows[i] EXCEPT !.status = "expired"]
        ELSE rows[i]]

NewAnchor(day, state) == [status |-> "active", valid_until |-> day, external_state |-> state]

\* An insert that goes on to create the reminder whatever the query said
\* (what C11 rules out).
AnchorInsertThenCreate ==
    /\ cw.pc = "anchor_insert"
    /\ anchors' = Append(ExpireOld(anchors, cw.a_today), NewAnchor(cw.a_today, "null"))
    /\ cw' = [cw EXCEPT !.pc = "http", !.method = "rtm.timelines.create", !.try = 0]
    /\ UNCHANGED <<decision_status, clarifyCols, clarify_json, commitCols,
                   worldVars, cb, cl, req, histVars>>
    /\ UNCHANGED auxVars

\* After the existence query returned: expire, insert, and record already_exists.
AnchorInsert ==
    /\ cw.pc = "anchor_insert"
    /\ anchors' = Append(ExpireOld(anchors, cw.a_today),
                         NewAnchor(cw.a_today,
                                   IF cw.a_exists THEN "already_exists" ELSE "null"))
    /\ cw' = IF cw.a_exists
             THEN CwIdle
             ELSE [cw EXCEPT !.pc = "http", !.method = "rtm.timelines.create", !.try = 0]
    /\ UNCHANGED <<decision_status, clarifyCols, clarify_json, commitCols,
                   worldVars, cb, cl, req, histVars>>
    /\ UNCHANGED auxVars

\* After create_timeline / add_task of the reminder returned or raised.
AnchorFinish ==
    /\ cw.pc = "anchor_finish"
    /\ anchors' = [anchors EXCEPT ![Len(anchors)].external_state =
                        IF cw.exc = NoExc THEN "committed" ELSE "unknown"]
    /\ cw' = CwIdle
    /\ UNCHANGED <<decision_status, clarifyCols, clarify_json, commitCols,
                   worldVars, cb, cl, req, histVars>>
    /\ UNCHANGED auxVars

CommitWorkerStep ==
    \/ CommitPollStart \/ CommitBegin \/ CommitFinish
    \/ HttpRefused \/ HttpOk \/ HttpRtmFail \/ HttpTimeout \/ HttpRetryable \/ HttpAuthError
    \/ AnchorBegin \/ AnchorInsert \/ AnchorFinish

\* ------------------------------------------------------------- environment
\* Time passes: the breaker's recovery_timeout elapses.
RecoveryTimeoutElapses ==
    /\ cb.state = "OPEN"
    /\ ~cb.recovery_elapsed
    /\ cb' = [cb EXCEPT !.recovery_elapsed = TRUE]
    /\ UNCHANGED <<dbVars, worldVars, cw, cl, req, histVars>>
    /\ UNCHANGED auxVars

DayRollover ==
    /\ today < MaxDay
    /\ today' = today + 1
    /\ UNCHANGED <<dbVars, rtm_tasks, anchor_tasks, cb, cw, cl, req, histVars>>
    /\ UNCHANGED auxVars

\* --------------------------------------------------------- request handlers
ReqIdle == [kind |-> "none", cap |-> NoCapture, clar |-> NoJson]

\* main.py approve_capture / reject_capture up to "await request.form()":
\* db.get and _ensure_proposed.  A refused request (HTTP 400) changes nothing.
_ensure_proposed(c) == decision_status[c] = "proposed"

DecisionStart(r, kind, c) ==
    /\ req[r] = ReqIdle
    /\ _ensure_proposed(c)
    /\ req' = [req EXCEPT ![r] = [kind |-> kind, cap |-> c, clar |-> clarify_json[c]]]
    /\ UNCHANGED <<dbVars, worldVars, cb, cw, cl, histVars>>
    /\ UNCHANGED auxVars

ApproveStart == \E r \in Requests, c \in Captures : DecisionStart(r, "approve", c)
RejectStart == \E r \in Requests, c \in Captures : DecisionStart(r, "reject", c)

\* ... and from the form to the commit: the UPDATE writes clarify_json,
\* decision_status and decision_at.
DecisionFinish(r, kind, status) ==
    /\ req[r].kind = kind
    /\ \E form \in Forms :
          clarify_json' = [clarify_json EXCEPT
                              ![req[r].cap] = ApplyForm(req[r].clar, form, "next_action")]
    /\ decision_status' = [decision_status EXCEPT ![req[r].cap] = status]
    /\ req' = [req EXCEPT ![r] = ReqIdle]
    /\ UNCHANGED <<clarifyCols, commitCols, anchors, worldVars, cb, cw, cl, histVars>>
    /\ UNCHANGED auxVars

ApproveFinish == \E r \in Requests : DecisionFinish(r, "approve", "approved")
RejectFinish == \E r \in Requests : DecisionFinish(r, "reject", "rejected")

\* main.py approval_update_clarification (the form is read before db.get)
ApprovalUpdateClarification ==
    \E c \in Captures, form \in Forms :
       /\ commit_attempt_count[c] < MaxCommitCount
       /\ clarify_json' = [clarify_json EXCEPT ![c] = ApplyForm(clarify_json[c], form, "project")]
       /\ IF decision_status[c] = "approved"
          THEN /\ commit_status' = [commit_status EXCEPT ![c] = "pending"]
               /\ user_reset' = [user_reset EXCEPT ![c] = TRUE]
          ELSE UNCHANGED <<commit_status, user_reset>>
       /\ UNCHANGED <<decision_status, clarifyCols, commit_attempt_count, rtm_task_id,
                      anchors, worldVars, cb, cw, cl, req, add_timed_out>>
       /\ UNCHANGED auxVars

\* main.py update_clarification: the body is stored verbatim, whatever the
\* capture's decision_status, clarify_status and commit_status are.
UpdateClarification ==
    \E c \in Captures, data \in ManualJsons :
       /\ clarify_json' = [clarify_json EXCEPT ![c] = data]
       /\ UNCHANGED <<decision_status, clarifyCols, commitCols, anchors,
                      worldVars, cb, cw, cl, req, histVars>>
       /\ UNCHANGED auxVars

\* ----------------------------------------------------- clarification worker
\* config.py CLARIFY_RETRY_DELAYS, in seconds, and .get(k, 0)
CLARIFY_RETRY_DELAYS == [k \in 1..4 |-> CASE k = 1 -> 0
                                          [] k = 2 -> 5 * 60
                                          [] k = 3 -> 30 * 60
                                          [] k = 4 -> 2 * 60 * 60]

\* A schedule without delays.
RetryDelayNone(k) == 0

RetryDelay(k) == IF k \in DOMAIN CLARIFY_RETRY_DELAYS THEN CLARIFY_RETRY_DELAYS[k] ELSE 0

\* Seconds since last_clarify_attempt_at that a poll may observe.
TimesSinceFailure == {0, 5 * 60 - 1, 5 * 60, 30 * 60 - 1, 30 * 60, 2 * 60 * 60 - 1, 2 * 60 * 60}

\* clarification.py _should_retry_clarification (last_clarify_attempt_at is set
\* whenever the status is failed)
_should_retry_clarification(status, count, time_since_failure) ==
    IF status = "pending" THEN TRUE
    ELSE IF status # "failed" THEN FALSE
    ELSE IF count >= MAX_CLARIFY_ATTEMPTS THEN FALSE
    ELSE time_since_failure >= RetryDelay(count + 1)

\* Locals of the clarifier thread; since is "now - last_clarify_attempt_at" of
\* the capture being clarified, in seconds, as _should_retry_clarification saw it.
ClIdle == [pc |-> "idle", queue |-> <<>>, cur |-> NoCapture, since |-> 0]

\* clarification.py _poll_once: the query for captures that need clarification
ClarifyFilter(c) ==
    /\ decision_status[c] = "proposed"
    /\ clarify_status[c] \in {"pending", "failed"}

ClarifyPollStart ==
    /\ cl.pc = "idle"
    /\ cl' = [ClIdle EXCEPT !.pc = "loop", !.queue = SelectSeq(CaptureSeq, ClarifyFilter)]
    /\ UNCHANGED <<dbVars, worldVars, cb, cw, req, histVars>>
    /\ UNCHANGED auxVars

ClarifyPollEnd ==
    /\ cl.pc = "loop"
    /\ cl.queue = <<>>
    /\ cl' = ClIdle
    /\ UNCHANGED <<dbVars, worldVars, cb, cw, req, histVars>>
    /\ UNCHANGED auxVars

\* A loop body that marks the capture in_progress without counting the attempt.
ClarifyBeginUncounted ==
    /\ cl.pc = "loop"
    /\ cl.queue # <<>>
    /\ LET c == Head(cl.queue)
       IN \E t \in TimesSinceFailure :
            IF _should_retry_clarification(clarify_status[c], clarify_attempt_count[c], t)
            THEN /\ clarify_status' = [clarify_status EXCEPT ![c] = "in_progress"]
                 /\ cl' = [cl EXCEPT !.pc = "llm", !.cur = c, !.queue = Tail(cl.queue)]
            ELSE /\ cl' = [cl EXCEPT !.queue = Tail(cl.queue)]
                 /\ UNCHANGED clarify_status
    /\ UNCHANGED <<decision_status, clarify_attempt_count, clarify_json, commitCols, anchors,
                   worldVars, cb, cw, req, histVars>>
    /\ UNCHANGED auxVars

\* The loop body up to the LLM call: skip, or mark in_progress and commit.
ClarifyBegin ==
    /\ cl.pc = "loop"
    /\ cl.queue # <<>>
    /\ LET c == Head(cl.queue)
       IN \E t \in TimesSinceFailure :
            IF _should_retry_clarification(clarify_status[c], clarify_attempt_count[c], t)
            THEN /\ clarify_status' = [clarify_status EXCEPT ![c] = "in_progress"]
                 /\ clarify_attempt_count' = [clarify_attempt_count EXCEPT ![c] = @ + 1]
                 /\ cl' = [cl EXCEPT !.pc = "llm", !.cur = c, !.queue = Tail(cl.queue),
                                     !.since = IF clarify_status[c] = "failed" THEN t ELSE 0]
            ELSE /\ cl' = [cl EXCEPT !.queue = Tail(cl.queue)]
                 /\ UNCHANGED <<clarify_status, clarify_attempt_count>>
    /\ UNCHANGED <<decision_status, clarify_json, commitCols, anchors,
                   worldVars, cb, cw, req, histVars>>
    /\ UNCHANGED auxVars

\* A ceiling test that is off by one (what C9 rules out).
ClarifyFailureStatusAbove(count) ==
    IF count > MAX_CLARIFY_ATTEMPTS THEN "permanently_failed" ELSE "failed"

\* A worker that never gives up.
ClarifyFailureStatusNever(count) == "failed"

\* The status stored when _clarify_capture returned None
ClarifyFailureStatus(count) ==
    IF count >= MAX_CLARIFY_ATTEMPTS THEN "permanently_failed" ELSE "failed"

\* _poll_once after _clarify_capture returned a JSON string (success) or None:
\* the columns written and committed.
ClarifyStore(c, success) ==
    /\ IF success
       THEN \E result \in LlmResults :
               /\ clarify_status' = [clarify_status EXCEPT ![c] = "completed"]
               /\ clarify_json' = [clarify_json EXCEPT ![c] = result]
       ELSE /\ clarify_status' = [clarify_status EXCEPT
                                      ![c] = ClarifyFailureStatus(clarify_attempt_count[c])]
            /\ clarify_json' = [clarify_json EXCEPT ![c] = ErrorInfo]
    /\ cl' = [cl EXCEPT !.pc = "loop", !.cur = NoCapture, !.since = 0]
    /\ UNCHANGED <<decision_status, clarify_attempt_count, commitCols, anchors,
                   worldVars, cb, cw, req, histVars>>

\* _clarify_capture returned (a JSON string or None) and the result is committed.
ClarifyFinish ==
    /\ cl.pc = "llm"
    /\ \E success \in BOOLEAN : ClarifyStore(cl.cur, success)
    /\ UNCHANGED auxVars

ClarifierStep == ClarifyPollStart \/ ClarifyPollEnd \/ ClarifyBegin \/ ClarifyFinish

\* ------------------------------------------------------------ LLM provider
\* clarification.py _clarify_capture and _call_llm_api, request by request.
\* try is the iteration of retry_with_backoff.wrapper, out what _clarify_capture
\* returned ("json" or "None"; "none" while it runs), cb the "llm_api" breaker.
\* calls, limited and answered record, per capture, the requests the provider
\* received, those it answered with HTTP 429, and whether it answered one with
\* a usable clarification.
LlmIdle ==
    [try |-> 0, out |-> "none", cb |-> CbInit,
     calls |-> [c \in Captures |-> 0],
     limited |-> [c \in Captures |-> 0],
     answered |-> [c \in Captures |-> FALSE]]

InLlm == cl.pc = "llm" /\ llm.out = "none"
LlmCanCall == InLlm /\ ~CbRefuses(llm.cb) /\ llm.calls[cl.cur] < MaxLlmCalls
LlmCanFail == LlmCanCall /\ llm.cb.failure_count < MaxFailureCount

\* requests.post reached the provider
LlmCalled(l, c) == [l EXCEPT !.calls[c] = @ + 1]

\* retry_with_backoff.wrapper: a retryable exception in iteration l.try; the
\* exception raised after the last iteration makes _clarify_capture return None
LlmAfterRetryable(l) ==
    IF l.try < llm_max_retries
    THEN [l EXCEPT !.try = l.try + 1]
    ELSE [l EXCEPT !.out = "None"]

LlmFrame ==
    /\ UNCHANGED <<dbVars, worldVars, cb, cw, cl, req, histVars>>
    /\ UNCHANGED <<entryVars, highlightVars, caller, ts, schedVars, form_save, threads>>

\* CircuitBreaker.call raises RuntimeError: no request is sent, the wrapper
\* re-raises and _clarify_capture returns None.
LlmRefused ==
    /\ InLlm
    /\ CbRefuses(llm.cb)
    /\ llm' = [llm EXCEPT !.out = "None"]
    /\ LlmFrame

\* HTTP 200 with a clarification that passes the checks of _clarify_capture
LlmOk ==
    /\ LlmCanCall
    /\ llm' = [LlmCalled(llm, cl.cur) EXCEPT !.cb = _on_success(CbEnter(llm.cb)),
                                             !.answered[cl.cur] = TRUE,
                                             !.out = "json"]
    /\ LlmFrame

\* HTTP 200 with an "error" key, no content, invalid JSON or no confidence_score
LlmUnusable ==
    /\ LlmCanCall
    /\ llm' = [LlmCalled(llm, cl.cur) EXCEPT !.cb = _on_success(CbEnter(llm.cb)),
                                             !.out = "None"]
    /\ LlmFrame

\* HTTP 429
LlmRateLimited ==
    /\ LlmCanFail
    /\ llm' = [LlmAfterRetryable(LlmCalled(llm, cl.cur)) EXCEPT
                  !.cb = _on_failure(CbEnter(llm.cb)),
                  !.limited[cl.cur] = @ + 1]
    /\ LlmFrame

\* requests.Timeout, requests.ConnectionError, HTTP 5xx
LlmRetryable ==
    /\ LlmCanFail
    /\ llm' = [LlmAfterRetryable(LlmCalled(llm, cl.cur)) EXCEPT
                  !.cb = _on_failure(CbEnter(llm.cb))]
    /\ LlmFrame

\* HTTP 4xx other than 429: raised at once
LlmClientError ==
    /\ LlmCanFail
    /\ llm' = [LlmCalled(llm, cl.cur) EXCEPT !.cb = _on_failure(CbEnter(llm.cb)),
                                             !.out = "None"]
    /\ LlmFrame

\* A worker that stores a failure whatever _clarify_capture returned.
ClarifyReturnAsFailure ==
    /\ cl.pc = "llm"
    /\ llm.out # "none"
    /\ ClarifyStore(cl.cur, FALSE)
    /\ llm' = [llm EXCEPT !.try = 0, !.out = "none"]
    /\ UNCHANGED <<entryVars, highlightVars, caller, ts, schedVars, form_save, threads>>

\* _poll_once after _clarify_capture returned
ClarifyReturn ==
    /\ cl.pc = "llm"
    /\ llm.out # "none"
    /\ ClarifyStore(cl.cur, llm.out = "json")
    /\ llm' = [llm EXCEPT !.try = 0, !.out = "none"]
    /\ UNCHANGED <<entryVars, highlightVars, caller, ts, schedVars, form_save, threads>>

\* Time passes: the recovery_timeout of the "llm_api" breaker elapses.
LlmRecoveryTimeoutElapses ==
    /\ llm.cb.state = "OPEN"
    /\ ~llm.cb.recovery_elapsed
    /\ llm' = [llm EXCEPT !.cb.recovery_elapsed = TRUE]
    /\ LlmFrame

LlmStep ==
    \/ LlmRefused \/ LlmOk \/ LlmUnusable \/ LlmRateLimited \/ LlmRetryable
    \/ LlmClientError

\* ------------------------------------------------- approval form, field by field
\* main.py approval_update_clarification: the form fields it reads ("" is a
\* field that is absent or empty) and the keys of the stored clarification it
\* keeps or replaces ("null" is a type key that is absent).
FormFields ==
    [project_name : {"", "Project"}, next_action : {"", "Action"},
     is_next_action : {"", "on"}, project_shortname : {"", "prj"}]
PrevClars == [type : {"project", "next_action", "null"}, clarified_text : {"", "old"}]

NoFormSave ==
    [called |-> FALSE,
     prev |-> [type |-> "null", clarified_text |-> ""],
     form |-> [project_name |-> "", next_action |-> "", is_next_action |-> "",
               project_shortname |-> ""],
     clar |-> [type |-> "null", clarified_text |-> "", project_name |-> "",
               next_action |-> "", project_shortname |-> FALSE]]

\* The dict after clar.update({...})
UpdatedClarification(prev, f) ==
    LET filled == [project_name |-> f.project_name # "",
                   is_next_action |-> f.is_next_action = "on",
                   project_shortname |-> f.project_shortname # ""]
    IN [type |-> FormType(Clar(prev.type, FALSE), filled, "project"),
        clarified_text |-> IF f.project_name # "" THEN f.project_name
                           ELSE IF f.next_action # "" THEN f.next_action
                           ELSE prev.clarified_text,
        project_name |-> f.project_name,
        next_action |-> f.next_action,
        project_shortname |-> filled.project_shortname]

SaveClarificationForm ==
    /\ ~form_save.called
    /\ form_save' = [form_save EXCEPT
                        !.called = TRUE,
                        !.clar = UpdatedClarification(form_save.prev, form_save.form)]
    /\ UNCHANGED <<coreVars, entryVars, highlightVars, caller, ts, schedVars, llm, threads>>

\* ------------------------------------------------------------------ process
\* The process terminates and is started again: memory is lost, the store and
\* RTM keep their state (main.py initialize_database starts the threads anew).
Restart ==
    /\ cw # CwIdle \/ cl # ClIdle
    /\ cw' = CwIdle
    /\ cl' = ClIdle
    /\ cb' = CbInit
    /\ req' = [r \in Requests |-> ReqIdle]
    /\ UNCHANGED <<dbVars, worldVars, histVars>>
    /\ UNCHANGED auxVars

\* ------------------------------------------------------------ commit entries
\* A Python string is the sequence of its words; the word " " is a run of
\* whitespace.  None and "" are both falsy for "or" and are both <<>>.
Words == {"x", "#na", "Terveys", "vero"}
Texts == {<<>>, <<" ">>, <<" ", "x", " ">>} \cup {<<w>> : w \in Words}
TypeTexts == {<<"project">>, <<" ", "project", " ">>, <<"next_action">>,
              <<"non_actionable">>, <<>>}
DueDates == {<<>>, <<" ">>, <<"2026-03-26">>}

\* str.strip()
Strip(s) ==
    LET kept == {i \in 1..Len(s) : s[i] # " "}
    IN IF kept = {} THEN <<>>
       ELSE SubSeq(s, CHOOSE i \in kept : \A j \in kept : i <= j,
                      CHOOSE i \in kept : \A j \in kept : i >= j)

\* str.upper() and str.lower(), word by word
UpperWord(w) == CASE w = "x" -> "X"
                  [] w = "#na" -> "#NA"
                  [] w = "Terveys" -> "TERVEYS"
                  [] w = "vero" -> "VERO"
                  [] OTHER -> w
LowerWord(w) == CASE w = "Terveys" -> "terveys"
                  [] OTHER -> w
Upper(s) == [i \in 1..Len(s) |-> UpperWord(s[i])]
Lower(s) == [i \in 1..Len(s) |-> LowerWord(s[i])]

\* "word in text"
Contains(s, w) == \E i \in 1..Len(s) : s[i] = w

\* a or b
Or(a, b) == IF a # <<>> THEN a ELSE b

\* The dict that _compute_commit_entries receives
ClarArgs ==
    [type : TypeTexts, project_name : Texts, project_shortname : Texts,
     next_action : Texts, clarified_text : Texts, due_date : DueDates]

NoClar ==
    [type |-> <<>>, project_name |-> <<>>, project_shortname |-> <<>>,
     next_action |-> <<>>, clarified_text |-> <<>>, due_date |-> <<>>]

\* rtm_commit.py _build_smart_add without the #na tag, whatever include_na is
\* (what C14 rules out).
_build_smart_add_never_na(task_name, include_na, due_date, text_for_tags) ==
    task_name
      \o (IF Contains(text_for_tags, "terveys") THEN <<"#terveys">> ELSE <<>>)
      \o (IF Contains(text_for_tags, "vero") THEN <<"#vero">> ELSE <<>>)
      \o (IF Contains(text_for_tags, "joulu") THEN <<"#joulu">> ELSE <<>>)
      \o (IF due_date # <<>> THEN <<"^">> \o due_date ELSE <<>>)

\* rtm_commit.py _build_smart_add: the name, the tags, "^" and the due date
_build_smart_add(task_name, include_na, due_date, text_for_tags) ==
    task_name
      \o (IF include_na THEN <<"#na">> ELSE <<>>)
      \o (IF Contains(text_for_tags, "terveys") THEN <<"#terveys">> ELSE <<>>)
      \o (IF Contains(text_for_tags, "vero") THEN <<"#vero">> ELSE <<>>)
      \o (IF Contains(text_for_tags, "joulu") THEN <<"#joulu">> ELSE <<>>)
      \o (IF due_date # <<>> THEN <<"^">> \o due_date ELSE <<>>)

\* text_for_tags_base: " ".join([clarified_text, project_name, next_action]).lower()
TextForTagsBase(clar) ==
    Lower(Strip(clar.clarified_text) \o Strip(clar.project_name) \o Strip(clar.next_action))

Entry(smart_add, task_name) == [smart_add |-> smart_add, task_name |-> task_name]

\* What a call left behind: the list returned, or raised = TRUE.
NoResult == [called |-> FALSE, raised |-> FALSE, list |-> <<>>]
Returned(list) == [called |-> TRUE, raised |-> FALSE, list |-> list]
Raised == [called |-> TRUE, raised |-> TRUE, list |-> <<>>]

\* _compute_commit_entries, the branch "ctype == 'project'"
ProjectEntries(clar) ==
    LET project_name == Strip(clar.project_name)
        shortname == Upper(Strip(clar.project_shortname))
        next_action == Strip(clar.next_action)
        clarified_text == Strip(clar.clarified_text)
        due_date == Strip(clar.due_date)
        base == Or(project_name, Or(clarified_text, Or(next_action, <<"Projekti">>)))
        project_task_name == shortname \o <<"-", "§§§", "-">> \o base
        first_next_action ==
            Or(next_action, shortname \o <<"---", "Määritä", "ensimmäinen", "next", "action">>)
    IN IF shortname = <<>>
       THEN Raised
       ELSE Returned(<<
              Entry(_build_smart_add(project_task_name, FALSE, due_date,
                                     project_task_name \o TextForTagsBase(clar)),
                    project_task_name),
              Entry(_build_smart_add(first_next_action, TRUE, due_date,
                                     first_next_action \o TextForTagsBase(clar)),
                    first_next_action)>>)

\* The single entry without the #na tag (what C15, amended, rules out).
SingleEntryWithoutNa(clar) ==
    LET task_name == Or(Strip(clar.next_action), Or(Strip(clar.clarified_text), <<"Tehtävä">>))
    IN Returned(<<Entry(_build_smart_add(task_name, FALSE, Strip(clar.due_date),
                                         task_name \o TextForTagsBase(clar)),
                        task_name)>>)

\* _compute_commit_entries, next_action or non_actionable
SingleEntry(clar) ==
    LET task_name == Or(Strip(clar.next_action), Or(Strip(clar.clarified_text), <<"Tehtävä">>))
    IN Returned(<<Entry(_build_smart_add(task_name, TRUE, Strip(clar.due_date),
                                         task_name \o TextForTagsBase(clar)),
                        task_name)>>)

_compute_commit_entries(clar) ==
    IF Strip(clar.type) = <<"project">> THEN ProjectEntries(clar) ELSE SingleEntry(clar)

\* One call of _compute_commit_entries.
ComputeCommitEntries ==
    /\ ~commit_entries.called
    /\ commit_entries' = _compute_commit_entries(clar_arg)
    /\ UNCHANGED <<coreVars, llm, form_save, threads, clar_arg, highlightVars, caller, ts, schedVars>>

\* ------------------------------------------------- calls through a breaker
\* One thread that calls CircuitBreaker.call again and again.  pc is "func"
\* while the wrapped function runs; invoked counts its invocations, made the
\* calls of CircuitBreaker.call, consec the failures since the last success.
CallerIdle == [pc |-> "idle", last |-> "none", made |-> 0, invoked |-> 0, consec |-> 0]

\* CircuitBreaker.call raises RuntimeError("... is OPEN")
CallRefused ==
    /\ caller.pc = "idle"
    /\ caller.made < MaxCalls
    /\ CbRefuses(cb)
    /\ caller' = [caller EXCEPT !.last = "refused", !.made = @ + 1]
    /\ UNCHANGED <<dbVars, worldVars, cb, cw, cl, req, histVars>>
    /\ UNCHANGED <<entryVars, highlightVars, ts, schedVars, llm, form_save, threads>>

\* CircuitBreaker.call up to "result = func(*args, **kwargs)"
CallEnter ==
    /\ caller.pc = "idle"
    /\ caller.made < MaxCalls
    /\ ~CbRefuses(cb)
    /\ cb' = CbEnter(cb)
    /\ caller' = [caller EXCEPT !.pc = "func", !.made = @ + 1, !.invoked = @ + 1]
    /\ UNCHANGED <<dbVars, worldVars, cw, cl, req, histVars>>
    /\ UNCHANGED <<entryVars, highlightVars, ts, schedVars, llm, form_save, threads>>

\* func returned
CallSuccess ==
    /\ caller.pc = "func"
    /\ cb' = _on_success(cb)
    /\ caller' = [caller EXCEPT !.pc = "idle", !.last = "ok", !.consec = 0]
    /\ UNCHANGED <<dbVars, worldVars, cw, cl, req, histVars>>
    /\ UNCHANGED <<entryVars, highlightVars, ts, schedVars, llm, form_save, threads>>

\* func raised
CallFailure ==
    /\ caller.pc = "func"
    /\ CanFail
    /\ cb' = _on_failure(cb)
    /\ caller' = [caller EXCEPT !.pc = "idle", !.last = "failed", !.consec = @ + 1]
    /\ UNCHANGED <<dbVars, worldVars, cw, cl, req, histVars>>
    /\ UNCHANGED <<entryVars, highlightVars, ts, schedVars, llm, form_save, threads>>

\* --------------------------------------- threads sharing one circuit breaker
\* get_circuit_breaker returns one object per name for the whole process; the
\* rtm-committer thread, the scheduler thread and the request handlers all call
\* RTM through "rtm_api".  The object has no lock, so the statements of
\* _on_success and _on_failure of different threads interleave.  pc: "idle",
\* "func" (the wrapped function runs), then the statement the thread is about
\* to execute; count is the failure_count the thread read for "+= 1".
ThreadIds == 1..NumThreads
ThreadIdle == [pc |-> "idle", count |-> 0]
ThreadsIdle == [t \in ThreadIds |-> ThreadIdle]

ThreadFrame ==
    /\ UNCHANGED <<dbVars, worldVars, cw, cl, req, histVars>>
    /\ UNCHANGED <<entryVars, highlightVars, caller, ts, schedVars, llm, form_save>>

\* CircuitBreaker.call up to "result = func(*args, **kwargs)"; a refused call
\* raises and leaves the thread where it was.
ThreadEnter(t) ==
    /\ threads[t].pc = "idle"
    /\ ~CbRefuses(cb)
    /\ cb' = CbEnter(cb)
    /\ threads' = [threads EXCEPT ![t].pc = "func"]
    /\ ThreadFrame

\* func returned: _on_success is entered
ThreadFuncReturns(t) ==
    /\ threads[t].pc = "func"
    /\ threads' = [threads EXCEPT ![t].pc = "success_count"]
    /\ UNCHANGED cb
    /\ ThreadFrame

\* self.failure_count = 0
ThreadSuccessCount(t) ==
    /\ threads[t].pc = "success_count"
    /\ cb' = [cb EXCEPT !.failure_count = 0]
    /\ threads' = [threads EXCEPT ![t].pc = "success_state"]
    /\ ThreadFrame

\* self.state = "CLOSED"
ThreadSuccessState(t) ==
    /\ threads[t].pc = "success_state"
    /\ cb' = [cb EXCEPT !.state = "CLOSED"]
    /\ threads' = [threads EXCEPT ![t].pc = "idle"]
    /\ ThreadFrame

\* func raised: _on_failure is entered and reads self.failure_count
ThreadFuncRaises(t) ==
    /\ threads[t].pc = "func"
    /\ CanFail
    /\ threads' = [threads EXCEPT ![t].pc = "failure_count", ![t].count = cb.failure_count]
    /\ UNCHANGED cb
    /\ ThreadFrame

\* self.failure_count += 1 stores the sum; self.last_failure_time = time.time()
ThreadFailureCount(t) ==
    /\ threads[t].pc = "failure_count"
    /\ cb' = [cb EXCEPT !.failure_count = threads[t].count + 1,
                        !.recovery_elapsed = FALSE]
    /\ threads' = [threads EXCEPT ![t].pc = "failure_test", ![t].count = 0]
    /\ ThreadFrame

\* if self.failure_count >= self.failure_threshold
ThreadFailureTest(t) ==
    /\ threads[t].pc = "failure_test"
    /\ threads' = [threads EXCEPT
                      ![t].pc = IF cb.failure_count >= failure_threshold
                                THEN "failure_state" ELSE "idle"]
    /\ UNCHANGED cb
    /\ ThreadFrame

\* self.state = "OPEN"
ThreadFailureState(t) ==
    /\ threads[t].pc = "failure_state"
    /\ cb' = [cb EXCEPT !.state = "OPEN"]
    /\ threads' = [threads EXCEPT ![t].pc = "idle"]
    /\ ThreadFrame

ThreadStep ==
    \E t \in ThreadIds :
       \/ ThreadEnter(t)
       \/ ThreadFuncReturns(t) \/ ThreadSuccessCount(t) \/ ThreadSuccessState(t)
       \/ ThreadFuncRaises(t) \/ ThreadFailureCount(t)
       \/ ThreadFailureTest(t) \/ ThreadFailureState(t)

\* ---------------------------------------------------- transactional_session
\* One "with transactional_session(db):" block after the other.  The function
\* is a generator under contextlib.contextmanager: __enter__ runs it to its
\* yield, __exit__ resumes it (next) when the block ended normally or throws the
\* block's exception into it, and expects it to finish; a generator that yields
\* once more makes __exit__ raise RuntimeError("generator didn't stop").
\* pc: "idle", "body" (suspended at yield, the caller's block runs), "commit"
\* (resumed, at session.commit()), "loop" (at the while test after "continue"),
\* "returned" / "raised" (how the with statement ended for the caller).
TsIdle ==
    [pc |-> "idle", max_retries |-> 0, attempt |-> 0, pending |-> FALSE,
     stored |-> 0, commits |-> 0, busy |-> FALSE, error |-> "none"]

TsMaxRetries == {0, 1, ts_max_retries}
StorageErrors == {"busy", "other"}

\* is_busy_error
IsBusyError(e) == e = "busy"

\* __enter__; the caller has staged its mutations with db.add.
TsEnter ==
    /\ ts.pc \in {"idle", "returned", "raised"}
    /\ ts.stored < MaxTx
    /\ \E m \in TsMaxRetries :
          ts' = [TsIdle EXCEPT !.pc = "body", !.max_retries = m, !.pending = TRUE,
                               !.stored = ts.stored]
    /\ UNCHANGED <<coreVars, llm, form_save, threads, entryVars, highlightVars, caller, schedVars>>

\* The "except Exception as e" handler of the generator.
TsHandle(t, e) ==
    LET attempt == t.attempt + 1
    IN IF IsBusyError(e) /\ attempt <= t.max_retries
       THEN [t EXCEPT !.pc = "loop", !.attempt = attempt, !.pending = FALSE]
       ELSE [t EXCEPT !.pc = "raised", !.attempt = attempt, !.pending = FALSE,
                      !.error = e]

\* The block raised: __exit__ throws the exception in at the yield.
TsBodyRaises ==
    /\ ts.pc = "body"
    /\ \E e \in StorageErrors : ts' = TsHandle(ts, e)
    /\ UNCHANGED <<coreVars, llm, form_save, threads, entryVars, highlightVars, caller, schedVars>>

\* The block ended: __exit__ resumes the generator after the yield.
TsBodyEnds ==
    /\ ts.pc = "body"
    /\ ts' = [ts EXCEPT !.pc = "commit"]
    /\ UNCHANGED <<coreVars, llm, form_save, threads, entryVars, highlightVars, caller, schedVars>>

\* session.commit() succeeds, the generator returns.
TsCommitOk ==
    /\ ts.pc = "commit"
    /\ ts' = [ts EXCEPT !.pc = "returned", !.commits = @ + 1, !.pending = FALSE,
                        !.stored = IF ts.pending THEN @ + 1 ELSE @]
    /\ UNCHANGED <<coreVars, llm, form_save, threads, entryVars, highlightVars, caller, schedVars>>

\* session.commit() raises; the handler rolls back.
TsCommitFails ==
    /\ ts.pc = "commit"
    /\ \E e \in StorageErrors :
          ts' = TsHandle([ts EXCEPT !.commits = @ + 1,
                                    !.busy = ts.busy \/ IsBusyError(e)], e)
    /\ UNCHANGED <<coreVars, llm, form_save, threads, entryVars, highlightVars, caller, schedVars>>

\* After time.sleep(delay) and "continue": the while test, "try:", and the
\* yield again, inside __exit__.
TsLoop ==
    /\ ts.pc = "loop"
    /\ ts' = IF ts.attempt <= ts.max_retries
             THEN [ts EXCEPT !.pc = "raised", !.error = "generator didn't stop"]
             ELSE [ts EXCEPT !.pc = "raised", !.error = "busy"]
    /\ UNCHANGED <<coreVars, llm, form_save, threads, entryVars, highlightVars, caller, schedVars>>

TransactionStep ==
    TsEnter \/ TsBodyRaises \/ TsBodyEnds \/ TsCommitOk \/ TsCommitFails \/ TsLoop

\* ---------------------------------------------------------------- scheduler
\* A datetime is a day and a slot of the day: 0 before the highlights time,
\* 1 from the highlights time on, 2 from the backlog time (an hour later) on.
HighlightsSlot == 1
BacklogSlot == 2
ClockStart == [day |-> 0, slot |-> 0]
Days == 0..MaxSchedDay

SchedIdle ==
    [pc |-> "top", now |-> ClockStart, today |-> 0,
     last_highlights_run |-> NoDate, last_backlog_run |-> NoDate,
     highlights_runs |-> [d \in Days |-> 0], backlog_runs |-> [d \in Days |-> 0]]

ClockTick ==
    /\ \/ /\ clock.slot < BacklogSlot
          /\ clock' = [clock EXCEPT !.slot = @ + 1]
       \/ /\ clock.slot = BacklogSlot
          /\ clock.day < MaxSchedDay
          /\ clock' = [day |-> clock.day + 1, slot |-> 0]
    /\ UNCHANGED <<coreVars, llm, form_save, threads, entryVars, highlightVars, caller, ts, sched>>

\* A window that is open only in the slot of the run time itself: no catch-up.
_has_job_window_opened_exact(day, now, slot) ==
    now.day = day /\ now.slot = slot

\* daily_highlights_scheduler.py _has_job_window_opened
_has_job_window_opened(day, now, slot) ==
    now.day > day \/ (now.day = day /\ now.slot >= slot)

\* run_background_scheduler: "now = datetime.utcnow(); today = now.date()"
SchedWake ==
    /\ sched.pc = "top"
    /\ sched' = [sched EXCEPT !.pc = "highlights", !.now = clock, !.today = clock.day]
    /\ UNCHANGED <<coreVars, llm, form_save, threads, entryVars, highlightVars, caller, ts, clock>>

\* The highlights block; run_daily_highlights catches every Exception.
SchedHighlights ==
    /\ sched.pc = "highlights"
    /\ IF /\ sched.last_highlights_run # sched.today
          /\ _has_job_window_opened(sched.today, sched.now, HighlightsSlot)
       THEN /\ sched.highlights_runs[sched.today] < MaxRuns
            /\ sched' = [sched EXCEPT !.pc = "backlog",
                                      !.highlights_runs[sched.today] = @ + 1,
                                      !.last_highlights_run = sched.today]
       ELSE sched' = [sched EXCEPT !.pc = "backlog"]
    /\ UNCHANGED <<coreVars, llm, form_save, threads, entryVars, highlightVars, caller, ts, clock>>

\* The backlog block; nightly_backlog_drain returns, or raises from its query.
SchedBacklog ==
    /\ sched.pc = "backlog"
    /\ IF /\ sched.last_backlog_run # sched.today
          /\ _has_job_window_opened(sched.today, sched.now, BacklogSlot)
       THEN /\ sched.backlog_runs[sched.today] < MaxRuns
            /\ \/ sched' = [sched EXCEPT !.pc = "sleep",
                                         !.backlog_runs[sched.today] = @ + 1,
                                         !.last_backlog_run = sched.today]
               \/ sched' = [sched EXCEPT !.pc = "sleep",
                                         !.backlog_runs[sched.today] = @ + 1]
       ELSE sched' = [sched EXCEPT !.pc = "sleep"]
    /\ UNCHANGED <<coreVars, llm, form_save, threads, entryVars, highlightVars, caller, ts, clock>>

\* time.sleep(60), at the end of the try block or in the except handler
SchedSleep ==
    /\ sched.pc = "sleep"
    /\ sched' = [sched EXCEPT !.pc = "top"]
    /\ UNCHANGED <<coreVars, llm, form_save, threads, entryVars, highlightVars, caller, ts, clock>>

SchedulerStep == SchedWake \/ SchedHighlights \/ SchedBacklog \/ SchedSleep

\* --------------------------------------------------------- daily highlights
\* A row of the rtm_tasks cache (app/models.py RtmTask).  Datetimes are whole
\* days; last_suggested_at is NoDate when NULL; in_project is "rtm_project_id
\* is not NULL", highlighted is "tags contain HIGHLIGHT_LABEL".
CreatedAges == {7, 14, 15}
SuggestedAges == {13, 14, 15}

TaskRows(now) ==
    [created_at : {now - a : a \in CreatedAges},
     in_project : BOOLEAN, rtm_completed : BOOLEAN, highlighted : BOOLEAN,
     times_suggested : {MAX_SUGGESTIONS_14D - 1, MAX_SUGGESTIONS_14D},
     last_suggested_at : {NoDate} \cup {now - a : a \in SuggestedAges}]

TaskIds == 1..NumTasks

NoPool == [built |-> FALSE, ids |-> <<>>]

\* run_daily_highlights.  pc: "off" (no job), "clear", "pool", "verify",
\* "select", "apply", "persist", "done"; valid is the list that step 3 returned,
\* selected the tasks step 4 chose, tag_failed those whose rtm.tasks.addTag
\* raised in step 5, result the "status" / "reason" of the dict returned.
NoRun == [pc |-> "off", valid |-> <<>>, selected |-> {}, tag_failed |-> {}, result |-> "none"]

\* build_candidate_pool: the filters both bands share
HardFilters(t) == ~t.in_project /\ ~t.rtm_completed /\ ~t.highlighted

\* ... the anti-nag filter; a comparison with NULL is not true in SQL
AntiNag(t, nag_cutoff) ==
    \/ t.times_suggested < MAX_SUGGESTIONS_14D
    \/ (t.last_suggested_at # NoDate /\ t.last_suggested_at < nag_cutoff)

InBandA(t, now) == t.created_at < now - SUGGESTION_WINDOW_DAYS
InBandB(t, now) == t.created_at >= now - RECENT_DAYS

\* The orders in which a query may return the rows ids, sorted by key ascending;
\* rows with equal keys come in any order.
Ordered(ids, key) ==
    {q \in [1..Cardinality(ids) -> ids] :
        /\ \A i, j \in DOMAIN q : i # j => q[i] # q[j]
        /\ \A i, j \in DOMAIN q : i < j => key[q[i]] <= key[q[j]]}

\* .limit(n)
Limit(q, n) == SubSeq(q, 1, IF Len(q) < n THEN Len(q) ELSE n)

\* build_candidate_pool, called on its own or by the job after step 1
BuildCandidatePool ==
    /\ ~candidates.built
    /\ hl_run.pc \in {"off", "pool"}
    /\ LET nag_cutoff == utcnow - SUGGESTION_WINDOW_DAYS
           Common(i) == HardFilters(task_cache[i]) /\ AntiNag(task_cache[i], nag_cutoff)
           a_ids == {i \in DOMAIN task_cache : Common(i) /\ InBandA(task_cache[i], utcnow)}
           b_ids == {i \in DOMAIN task_cache : Common(i) /\ InBandB(task_cache[i], utcnow)}
           KeyA == [i \in DOMAIN task_cache |-> task_cache[i].last_suggested_at]
           KeyB == [i \in DOMAIN task_cache |-> 0 - task_cache[i].created_at]
       IN \E band_a \in Ordered(a_ids, KeyA), band_b \in Ordered(b_ids, KeyB) :
             candidates' = [built |-> TRUE,
                            ids |-> Limit(band_a, BAND_A_LIMIT) \o Limit(band_b, BAND_B_LIMIT)]
    /\ UNCHANGED <<coreVars, llm, form_save, threads, entryVars, task_cache, utcnow, hl_run, caller, ts, schedVars>>

\* ------------------------------------------------------- the highlights job
RunFrame ==
    /\ UNCHANGED <<coreVars, llm, form_save, threads, entryVars, caller, ts, schedVars>>
    /\ UNCHANGED utcnow

Range(q) == {q[i] : i \in DOMAIN q}

\* Step 1, clear_system_highlights: it touches RTM only; when the list request
\* raises, the job returns {"status": "error"}.
ClearSystemHighlights ==
    /\ hl_run.pc = "clear"
    /\ \/ hl_run' = [hl_run EXCEPT !.pc = "pool"]
       \/ hl_run' = [hl_run EXCEPT !.pc = "done", !.result = "error"]
    /\ UNCHANGED <<task_cache, candidates>>
    /\ RunFrame

\* run_daily_highlights after build_candidate_pool returned
PoolBuilt ==
    /\ hl_run.pc = "pool"
    /\ candidates.built
    /\ hl_run' = IF candidates.ids = <<>>
                 THEN [hl_run EXCEPT !.pc = "done", !.result = "no_candidates"]
                 ELSE [hl_run EXCEPT !.pc = "verify"]
    /\ UNCHANGED <<task_cache, candidates>>
    /\ RunFrame

\* What the lookup of one candidate in RTM gives: the task is there and open;
\* it is completed or not found (the row is marked rtm_completed); the call
\* raised (the candidate is skipped).
Lookups == {"valid", "gone", "error"}

\* Step 3, filter_existing_uncompleted_tasks
FilterExistingUncompletedTasks ==
    /\ hl_run.pc = "verify"
    /\ \E lookup \in [Range(candidates.ids) -> Lookups] :
          LET IsValid(i) == lookup[i] = "valid"
              valid == SelectSeq(candidates.ids, IsValid)
          IN /\ task_cache' =
                   [i \in DOMAIN task_cache |->
                       IF i \in Range(candidates.ids) /\ lookup[i] = "gone"
                       THEN [task_cache[i] EXCEPT !.rtm_completed = TRUE]
                       ELSE task_cache[i]]
             /\ hl_run' = IF valid = <<>>
                          THEN [hl_run EXCEPT !.pc = "done", !.result = "none_valid"]
                          ELSE [hl_run EXCEPT !.pc = "select", !.valid = valid]
    /\ UNCHANGED candidates
    /\ RunFrame

\* select_final: the score of a task without the random part
ScoreBase(t, now) ==
    (IF t.times_suggested = 0 THEN 5 ELSE 0)
      + (IF now - t.created_at >= OLD_TASK_DAYS THEN 3 ELSE 0)

\* random.uniform(0, 2): the least, a middle and the greatest value
RandomDraws == 0..2

\* The first n of the list sorted by score descending; sort is stable, so
\* tasks with equal scores keep the order of the list.
TopScored(q, score, n) ==
    LET Above(i, j) == score[q[i]] > score[q[j]] \/ (score[q[i]] = score[q[j]] /\ i < j)
    IN {q[j] : j \in {k \in DOMAIN q : Cardinality({i \in DOMAIN q : Above(i, k)}) < n}}

\* Step 4, select_final
SelectFinal ==
    /\ hl_run.pc = "select"
    /\ \E random \in [Range(hl_run.valid) -> RandomDraws] :
          LET score == [i \in Range(hl_run.valid) |->
                           ScoreBase(task_cache[i], utcnow) + random[i]]
          IN hl_run' = [hl_run EXCEPT
                           !.pc = "apply",
                           !.selected = TopScored(hl_run.valid, score, FINAL_SELECT)]
    /\ UNCHANGED <<task_cache, candidates>>
    /\ RunFrame

\* Step 5, apply_highlights_to_rtm: a tag call that raises is logged and the
\* loop goes on.
ApplyHighlightsToRtm ==
    /\ hl_run.pc = "apply"
    /\ \E failed \in SUBSET hl_run.selected :
          /\ Cardinality(failed) <= MaxTagFailures
          /\ hl_run' = [hl_run EXCEPT !.pc = "persist", !.tag_failed = failed]
    /\ UNCHANGED <<task_cache, candidates>>
    /\ RunFrame

\* The rows after the metadata of the tasks in ids was updated
Suggested(rows, ids, now) ==
    [i \in DOMAIN rows |->
        IF i \in ids
        THEN [rows[i] EXCEPT !.times_suggested = @ + 1, !.last_suggested_at = now]
        ELSE rows[i]]

\* A step 6 that records only the tasks whose marker was applied.
PersistTaggedOnly ==
    /\ hl_run.pc = "persist"
    /\ task_cache' = Suggested(task_cache, hl_run.selected \ hl_run.tag_failed, utcnow)
    /\ hl_run' = [hl_run EXCEPT !.pc = "done", !.result = "ok"]
    /\ UNCHANGED candidates
    /\ RunFrame

\* Step 6, persist_suggestion_metadata, and the return of the job. The commit
\* of the step is the one that succeeds; a commit that fails is the subject of
\* the transactional_session component.
PersistSuggestionMetadata ==
    /\ hl_run.pc = "persist"
    /\ task_cache' = Suggested(task_cache, hl_run.selected, utcnow)
    /\ hl_run' = [hl_run EXCEPT !.pc = "done", !.result = "ok"]
    /\ UNCHANGED candidates
    /\ RunFrame

\* ---------------------------------------------------------- specifications
\* Nothing has been called yet in the components outside the capture lifecycle.
EntriesIdle == clar_arg = NoClar /\ commit_entries = NoResult
HighlightsIdle == task_cache = <<>> /\ utcnow = 0 /\ candidates = NoPool /\ hl_run = NoRun
SchedulerIdle == sched = SchedIdle /\ clock = ClockStart

InitAux ==
    /\ EntriesIdle
    /\ HighlightsIdle
    /\ caller = CallerIdle
    /\ ts = TsIdle
    /\ SchedulerIdle
    /\ llm = LlmIdle
    /\ threads = ThreadsIdle
    /\ form_save = NoFormSave

\* The state after create_capture / ingestion of NumCaptures captures.
InitCore ==
    /\ decision_status = [c \in Captures |-> "proposed"]
    /\ clarify_status = [c \in Captures |-> "pending"]
    /\ clarify_attempt_count = [c \in Captures |-> 0]
    /\ clarify_json = [c \in Captures |-> NoJson]
    /\ commit_status = [c \in Captures |-> "pending"]
    /\ commit_attempt_count = [c \in Captures |-> 0]
    /\ rtm_task_id = [c \in Captures |-> 0]
    /\ anchors = <<>>
    /\ rtm_tasks = [c \in Captures |-> [e \in 1..2 |-> 0]]
    /\ anchor_tasks = 0
    /\ today = 0
    /\ cb = CbInit
    /\ cw = CwIdle
    /\ cl = ClIdle
    /\ req = [r \in Requests |-> ReqIdle]
    /\ add_timed_out = [c \in Captures |-> FALSE]
    /\ user_reset = [c \in Captures |-> FALSE]

Init == InitCore /\ InitAux

Next ==
    \/ CommitWorkerStep
    \/ ClarifierStep
    \/ ApproveStart \/ ApproveFinish \/ RejectStart \/ RejectFinish
    \/ ApprovalUpdateClarification
    \/ RecoveryTimeoutElapses \/ DayRollover \/ Restart

Spec == Init /\ [][Next]_vars

\* The commit worker on its own, from a store in which the user has already
\* decided some captures (approve_capture / reject_capture have run).
DecidedJsons == {Clar("next_action", FALSE), Clar("project", TRUE), Clar("project", FALSE)}

InitDecided ==
    /\ InitAux
    /\ decision_status \in [Captures -> {"proposed", "approved", "rejected"}]
    /\ clarify_json \in [Captures -> DecidedJsons \cup {NoJson}]
    /\ \A c \in Captures : (clarify_json[c] = NoJson) <=> (decision_status[c] = "proposed")
    /\ clarify_status = [c \in Captures |-> "pending"]
    /\ clarify_attempt_count = [c \in Captures |-> 0]
    /\ commit_status = [c \in Captures |-> "pending"]
    /\ commit_attempt_count = [c \in Captures |-> 0]
    /\ rtm_task_id = [c \in Captures |-> 0]
    /\ anchors = <<>>
    /\ rtm_tasks = [c \in Captures |-> [e \in 1..2 |-> 0]]
    /\ anchor_tasks = 0
    /\ today = 0
    /\ cb = CbInit
    /\ cw = CwIdle
    /\ cl = ClIdle
    /\ req = [r \in Requests |-> ReqIdle]
    /\ add_timed_out = [c \in Captures |-> FALSE]
    /\ user_reset = [c \in Captures |-> FALSE]

NextCommit == CommitWorkerStep \/ RecoveryTimeoutElapses \/ DayRollover

SpecCommit == InitDecided /\ [][NextCommit]_vars

\* The request handlers on their own.
NextApproval ==
    \/ ApproveStart \/ ApproveFinish \/ RejectStart \/ RejectFinish
    \/ ApprovalUpdateClarification

SpecApproval == Init /\ [][NextApproval]_vars

\* The approval handlers and the commit worker, with an RTM that answers.
NextDecision ==
    \/ ApproveStart \/ ApproveFinish \/ RejectStart \/ RejectFinish
    \/ CommitPollStart \/ CommitBegin \/ HttpOk \/ CommitFinish
    \/ AnchorBegin \/ AnchorInsert \/ AnchorFinish

SpecDecision == Init /\ [][NextDecision]_vars

\* The clarification worker and process restarts.
NextClarify == ClarifierStep \/ Restart

SpecClarify == Init /\ [][NextClarify]_vars

\* ... polling for ever (run_clarification_loop is a "while True" on a daemon
\* thread that initialize_database starts at every process start).
FairSpecClarify == SpecClarify /\ WF_vars(ClarifierStep)

\* The clarification worker while the user approves captures.
NextClarifyApprove == ClarifierStep \/ ApproveStart \/ ApproveFinish

SpecClarifyApprove == Init /\ [][NextClarifyApprove]_vars

\* _compute_commit_entries applied to a clarification dict.
InitEntries ==
    /\ InitCore
    /\ clar_arg \in ClarArgs
    /\ commit_entries = NoResult
    /\ HighlightsIdle
    /\ caller = CallerIdle
    /\ ts = TsIdle
    /\ SchedulerIdle
    /\ llm = LlmIdle
    /\ threads = ThreadsIdle
    /\ form_save = NoFormSave

SpecEntries == InitEntries /\ [][ComputeCommitEntries]_vars

\* build_candidate_pool applied to a cache of NumTasks rows.
InitHighlights ==
    /\ InitCore
    /\ EntriesIdle
    /\ utcnow = SUGGESTION_WINDOW_DAYS + RECENT_DAYS
    /\ task_cache \in [TaskIds -> TaskRows(utcnow)]
    /\ candidates = NoPool
    /\ hl_run = NoRun
    /\ caller = CallerIdle
    /\ ts = TsIdle
    /\ SchedulerIdle
    /\ llm = LlmIdle
    /\ threads = ThreadsIdle
    /\ form_save = NoFormSave

SpecHighlights == InitHighlights /\ [][BuildCandidatePool]_vars

\* One thread calling through the breaker, and time passing.
NextBreaker ==
    CallRefused \/ CallEnter \/ CallSuccess \/ CallFailure \/ RecoveryTimeoutElapses

SpecBreaker == Init /\ [][NextBreaker]_vars

\* with-blocks of transactional_session, one after the other.
SpecTransaction == Init /\ [][TransactionStep]_vars

\* The scheduler thread, started at any time of day 0.
InitScheduler ==
    /\ InitCore
    /\ EntriesIdle
    /\ HighlightsIdle
    /\ caller = CallerIdle
    /\ ts = TsIdle
    /\ sched = SchedIdle
    /\ clock \in [day : {0}, slot : 0..BacklogSlot]
    /\ llm = LlmIdle
    /\ threads = ThreadsIdle
    /\ form_save = NoFormSave

NextScheduler == SchedulerStep \/ ClockTick

SpecScheduler == InitScheduler /\ [][NextScheduler]_vars

\* The clarification worker with the provider's answers, request by request.
NextLlm ==
    \/ ClarifyPollStart \/ ClarifyPollEnd \/ ClarifyBegin \/ ClarifyReturn
    \/ LlmStep \/ LlmRecoveryTimeoutElapses

SpecLlm == Init /\ [][NextLlm]_vars

\* approval_update_clarification applied to a stored clarification and a form.
InitFormSave ==
    /\ InitCore
    /\ EntriesIdle
    /\ HighlightsIdle
    /\ caller = CallerIdle
    /\ ts = TsIdle
    /\ SchedulerIdle
    /\ llm = LlmIdle
    /\ threads = ThreadsIdle
    /\ \E prev \in PrevClars, f \in FormFields :
          form_save = [NoFormSave EXCEPT !.prev = prev, !.form = f]

SpecFormSave == InitFormSave /\ [][SaveClarificationForm]_vars

\* The commit worker with an RTM that answers, and the requests a user can make
\* on a decided capture: saving the approval form and attaching a clarification
\* (approve_capture and reject_capture refuse it in _ensure_proposed and change
\* nothing).
NextUserRequests ==
    \/ CommitPollStart \/ CommitBegin \/ HttpOk \/ CommitFinish
    \/ AnchorBegin \/ AnchorInsert \/ AnchorFinish
    \/ ApprovalUpdateClarification \/ UpdateClarification

SpecUserRequests == InitDecided /\ [][NextUserRequests]_vars

\* The clarification worker while a client attaches clarifications.
NextManual == ClarifierStep \/ UpdateClarification

SpecManual == Init /\ [][NextManual]_vars

\* The commit worker polling for ever (run_commit_loop is a "while True" that
\* catches every exception), RTM answering each request with a result or an
\* error, while a client attaches clarifications.
PollingStep ==
    \/ CommitPollStart \/ CommitBegin \/ CommitFinish
    \/ HttpOk \/ HttpRtmFail
    \/ AnchorBegin \/ AnchorInsert \/ AnchorFinish

NextPolling == PollingStep \/ UpdateClarification

SpecPolling == InitDecided /\ [][NextPolling]_vars

FairSpecPolling == SpecPolling /\ WF_vars(PollingStep)

\* Threads calling through the "rtm_api" breaker at the same time.
NextThreads == ThreadStep \/ RecoveryTimeoutElapses

SpecThreads == Init /\ [][NextThreads]_vars

\* One run of the highlights job on a cache of NumRunTasks rows.  Row i is an
\* old task that was suggested before or a recent one that never was; the
\* first row may be completed already.  Rows differ in their dates, so that
\* the two bands are ordered.
OldRow(i, now) ==
    [created_at |-> now - OLD_TASK_DAYS - i, in_project |-> FALSE, rtm_completed |-> FALSE,
     highlighted |-> FALSE, times_suggested |-> 1,
     last_suggested_at |-> now - SUGGESTION_WINDOW_DAYS - i]
RecentRow(i, now) ==
    [created_at |-> now - i, in_project |-> FALSE, rtm_completed |-> FALSE,
     highlighted |-> FALSE, times_suggested |-> 0, last_suggested_at |-> NoDate]
RunTaskIds == 1..NumRunTasks

InitHighlightsRun ==
    /\ InitCore
    /\ EntriesIdle
    /\ utcnow = OLD_TASK_DAYS + NumRunTasks
    /\ \E old \in SUBSET RunTaskIds, done \in SUBSET {1} :
          task_cache = [i \in RunTaskIds |->
                           [(IF i \in old THEN OldRow(i, utcnow) ELSE RecentRow(i, utcnow))
                               EXCEPT !.rtm_completed = i \in done]]
    /\ candidates = NoPool
    /\ hl_run = [NoRun EXCEPT !.pc = "clear"]
    /\ caller = CallerIdle
    /\ ts = TsIdle
    /\ SchedulerIdle
    /\ llm = LlmIdle
    /\ threads = ThreadsIdle
    /\ form_save = NoFormSave

NextHighlightsRun ==
    \/ ClearSystemHighlights \/ BuildCandidatePool \/ PoolBuilt
    \/ FilterExistingUncompletedTasks \/ SelectFinal
    \/ ApplyHighlightsToRtm \/ PersistSuggestionMetadata

SpecHighlightsRun == InitHighlightsRun /\ [][NextHighlightsRun]_vars

\* ------------------------------------------------------------------ claims
InSeq(x, q) == \E i \in 1..Len(q) : q[i] = x

\* A step in which the commit worker sends an rtm.tasks.add request for capture c.
SendsAdd(c) ==
    /\ AddsCaptureTask
    /\ cw.cur = c
    /\ HttpOk \/ HttpRtmFail \/ HttpTimeout \/ HttpRetryable \/ HttpAuthError

\* C1: with no user intervention on the capture, no commit entry of a capture is
\* created more than once in RTM.
C1_NoDuplicateTask ==
    \A c \in Captures : \A e \in 1..2 : ~user_reset[c] => rtm_tasks[c][e] <= 1

\* C2: once commit_status is unknown, no step of the commit worker changes it,
\* selects the capture or works on it.
C2_UnknownIsTrap ==
    [][\A c \in Captures :
          commit_status[c] = "unknown" =>
             /\ commit_status'[c] = "unknown"
             /\ commit_attempt_count'[c] = commit_attempt_count[c]
             /\ ~InSeq(c, cw'.queue)
             /\ cw'.cur # c
             /\ ~SendsAdd(c)]_vars

C2_Witness ==
    \E c, d \in Captures :
       /\ d < c
       /\ commit_status[c] = "unknown"
       /\ cw.cur = d
       /\ InHttp

\* C3: after an rtm.tasks.add request for a capture ended in a timeout, no
\* further rtm.tasks.add request is sent for that capture.
C3_NoAddAfterTimeout ==
    [][\A c \in Captures : add_timed_out[c] /\ ~user_reset[c] => ~SendsAdd(c)]_vars

\* C7: while the worker is inside the RTM calls of a commit attempt, the store
\* already holds the incremented commit_attempt_count.
C7_AttemptPersistedBeforeCall ==
    (InHttp /\ cw.ctx = "capture") => commit_attempt_count[cw.cur] = cw.attempt

\* C10: at most one anchor row is active with valid_until >= today.
ActiveAnchors == {i \in 1..Len(anchors) : ActiveFor(anchors[i], today)}

C10_OneActiveAnchor == Cardinality(ActiveAnchors) <= 1

C10_Witness ==
    /\ Cardinality(ActiveAnchors) = 1
    /\ \E i \in 1..Len(anchors) : anchors[i].status = "expired"

\* C4: a decided capture (approved or rejected) keeps its decision_status in
\* every step, also when two decision requests are in flight at once.
C4_DecisionOnlyFromProposed ==
    [][\A c \in Captures :
          decision_status[c] # "proposed" => decision_status'[c] = decision_status[c]]_vars

\* C5: the commit worker sends rtm.tasks.add only for an approved capture, and
\* a capture that is proposed or rejected keeps its commit_status,
\* commit_attempt_count and RTM identifier.
C5_WorkerOnlyTouchesApproved ==
    [][\A c \in Captures :
          decision_status[c] # "approved" =>
             /\ ~SendsAdd(c)
             /\ commit_status'[c] = commit_status[c]
             /\ commit_attempt_count'[c] = commit_attempt_count[c]
             /\ rtm_task_id'[c] = rtm_task_id[c]]_vars

\* C6: the clarification worker never writes its result to a capture that is
\* approved or rejected.
C6_ClarifierOnlyWritesProposed ==
    [][ClarifyFinish => decision_status[cl.cur] = "proposed"]_vars

\* C8: a capture that is in_progress while no clarification attempt is running
\* (the process was restarted) and that stays proposed eventually leaves
\* in_progress.
C8_InProgressRecovers ==
    \A c \in Captures :
       (clarify_status[c] = "in_progress" /\ cl.cur # c)
          ~> (clarify_status[c] # "in_progress" \/ decision_status[c] # "proposed")

C11_ExistingReminderNotRecreated ==
    /\ [](InHttp /\ cw.ctx = "anchor" /\ cw.method # "rtm.tasks.getList" => ~cw.a_exists)
    /\ [][(cw.pc = "anchor_insert" /\ cw.a_exists /\ cw' # cw) =>
             /\ Len(anchors') = Len(anchors) + 1
             /\ anchors'[Len(anchors')] = NewAnchor(cw.a_today, "already_exists")
             /\ cw' = CwIdle
             /\ anchor_tasks' = anchor_tasks]_vars

C11_Witness ==
    /\ Len(anchors) = 2
    /\ anchors[1].external_state = "committed"
    /\ anchors[2].external_state = "already_exists"
    /\ anchor_tasks = 1
    /\ cw.pc = "idle"

\* C12: a capture that failed for a missing project_shortname is not selected
\* by any later poll of the commit worker.
C12_MissingShortnameIsTerminal ==
    [][\A c \in Captures :
          (/\ commit_status[c] = "failed"
           /\ MissingShortname(clarify_json[c])
           /\ cw.pc = "idle" /\ cw'.pc = "loop") => ~InSeq(c, cw'.queue)]_vars

IsProject(clar) == Strip(clar.type) = <<"project">>

\* C13: for a project with a non-empty project_shortname the result is two
\* entries; the first smart-add string is without "#na", the second has it.
C13_ProjectHasTwoEntries ==
    (/\ commit_entries.called
     /\ IsProject(clar_arg)
     /\ Strip(clar_arg.project_shortname) # <<>>) =>
        /\ ~commit_entries.raised
        /\ Len(commit_entries.list) = 2
        /\ ~Contains(commit_entries.list[1].smart_add, "#na")
        /\ Contains(commit_entries.list[2].smart_add, "#na")

StandaloneNextAction(clar) ==
    /\ Strip(clar.type) = <<"next_action">>
    /\ clar.project_name = <<>>
    /\ clar.project_shortname = <<>>

C16_AntiNagWindow ==
    candidates.built =>
       \A i \in TaskIds :
          LET t == task_cache[i]
              suggested == t.last_suggested_at # NoDate
              age == utcnow - t.last_suggested_at
              pooled == InSeq(i, candidates.ids)
          IN /\ (/\ t.times_suggested >= MAX_SUGGESTIONS_14D
                 /\ suggested /\ age < SUGGESTION_WINDOW_DAYS) => ~pooled
             /\ (/\ HardFilters(t)
                 /\ InBandA(t, utcnow) \/ InBandB(t, utcnow)
                 /\ suggested /\ age >= SUGGESTION_WINDOW_DAYS) => pooled

\* The step in which the wrapped function returned, raised, or was invoked.
CallSucceeds == caller.pc = "func" /\ caller'.pc = "idle" /\ caller'.last = "ok"
CallFails == caller.pc = "func" /\ caller'.pc = "idle" /\ caller'.last = "failed"
CallStarts == caller.pc = "idle" /\ caller'.pc = "func"

\* C17: under sequential calls the breaker goes from CLOSED to OPEN exactly at
\* the failure_threshold-th consecutive failure, from OPEN to HALF_OPEN exactly
\* at a call made after the recovery timeout elapsed, from HALF_OPEN to CLOSED
\* at a success and to OPEN at a failure, and changes state in no other step.
C17_BreakerTransitions ==
    [][/\ cb.state = "CLOSED" =>
             cb'.state = IF CallFails /\ caller'.consec = failure_threshold
                         THEN "OPEN" ELSE "CLOSED"
       /\ cb.state = "OPEN" =>
             cb'.state = IF CallStarts /\ cb.recovery_elapsed
                         THEN "HALF_OPEN" ELSE "OPEN"
       /\ cb.state = "HALF_OPEN" =>
             cb'.state = IF CallSucceeds THEN "CLOSED"
                         ELSE IF CallFails THEN "OPEN" ELSE "HALF_OPEN"
       /\ CallSucceeds => cb'.failure_count = 0]_vars

C17_Witness ==
    /\ cb.state = "OPEN"
    /\ cb.failure_count > failure_threshold
    /\ caller.last = "failed"

\* C18: a call through a breaker that is OPEN before the recovery timeout has
\* elapsed is refused without invoking the function and leaves the breaker as
\* it was.
C18_OpenFailsFast ==
    [][(/\ cb.state = "OPEN" /\ ~cb.recovery_elapsed
        /\ caller.pc = "idle" /\ caller' # caller) =>
          /\ caller'.last = "refused"
          /\ caller'.pc = "idle"
          /\ caller'.invoked = caller.invoked
          /\ cb' = cb]_vars

C18_Witness ==
    /\ caller.last = "refused"
    /\ cb.state = "OPEN"
    /\ caller.invoked = failure_threshold

\* C19: a with-block in which a commit failed with a storage-busy error and
\* that ends with an exception has retried the commit max_retries times and
\* raises the storage error.
C19_BusyCommitIsRetried ==
    (ts.pc = "raised" /\ ts.busy) =>
        /\ ts.commits = ts.max_retries + 1
        /\ ts.error = "busy"

\* C20: in one run of the scheduler loop each job is invoked at most once for
\* a date, also when the invocation raised.
C20_OncePerDate ==
    \A d \in Days : sched.highlights_runs[d] <= 1 /\ sched.backlog_runs[d] <= 1

\* The clock reading of the current iteration is at or after the run time of
\* the job of the given slot, on the date of the reading.
ReadingAtOrAfter(slot) == sched.now.day = sched.today /\ sched.now.slot >= slot

\* C21: an iteration of the scheduler loop whose clock reading is at or after
\* the run time of a job that has not been invoked on that date invokes the job
\* in that iteration, before the sleep; this holds for the first iteration of
\* a scheduler started after the run time as for every later one.
C21_CatchUp ==
    [][/\ (/\ sched.pc = "highlights" /\ sched' # sched
           /\ ReadingAtOrAfter(HighlightsSlot)
           /\ sched.highlights_runs[sched.today] = 0) =>
             /\ sched'.highlights_runs[sched.today] = 1
             /\ sched'.pc = "backlog"
       /\ (/\ sched.pc = "backlog" /\ sched' # sched
           /\ ReadingAtOrAfter(BacklogSlot)
           /\ sched.backlog_runs[sched.today] = 0) =>
             /\ sched'.backlog_runs[sched.today] = 1
             /\ sched'.pc = "sleep"]_vars

\* The scheduler started after both run times and is in its first sleep.
C21_Witness ==
    /\ sched.pc = "sleep"
    /\ sched.now = [day |-> 0, slot |-> BacklogSlot]
    /\ clock = sched.now
    /\ sched.highlights_runs[0] = 1
    /\ sched.backlog_runs[0] = 1
    /\ sched.last_backlog_run = 0

\* The provider answered HTTP 429 to three calls for capture c and then
\* answered a fourth, the last one, with a usable clarification; the worker
\* has stored the result.
RateLimitedThenAnswered(c) ==
    /\ llm.limited[c] = 3
    /\ llm.calls[c] = 4
    /\ llm.answered[c]
    /\ cl.cur # c

\* A step in which a request for the capture being clarified reaches the provider.
ProviderCall == llm'.calls # llm.calls

C24_AttemptPersistedBeforeCall ==
    /\ [](InLlm => /\ clarify_status[cl.cur] = "in_progress"
                   /\ clarify_attempt_count[cl.cur] >= 1)
    /\ [][\A c \in Captures :
            LET starts == cl.pc = "loop" /\ cl'.pc = "llm" /\ cl'.cur = c
            IN /\ starts => /\ clarify_attempt_count'[c] = clarify_attempt_count[c] + 1
                            /\ clarify_status'[c] = "in_progress"
                            /\ llm'.calls = llm.calls
               /\ ~starts => clarify_attempt_count'[c] = clarify_attempt_count[c]]_vars

\* The second attempt of a capture is calling the provider after a first
\* attempt that failed.
C24_Witness ==
    /\ InLlm
    /\ llm.try = 1
    /\ clarify_attempt_count[cl.cur] = 2
    /\ llm.calls[cl.cur] = 3

\* C25: a failed capture is admitted for attempt 2, 3, 4 only when 5 minutes,
\* 30 minutes, 2 hours have passed since last_clarify_attempt_at, and a failed
\* capture at the maximum count is not admitted at all.
C25_BackoffBeforeRetry ==
    /\ [][\A c \in Captures :
            (/\ cl.pc = "loop" /\ cl'.pc = "llm" /\ cl'.cur = c
             /\ clarify_status[c] = "failed") =>
               LET k == clarify_attempt_count[c] + 1
               IN /\ k = 2 => cl'.since >= 5 * 60
                  /\ k = 3 => cl'.since >= 30 * 60
                  /\ k = 4 => cl'.since >= 2 * 60 * 60
                  /\ k <= MAX_CLARIFY_ATTEMPTS]_vars
    /\ [](\A t \in TimesSinceFailure :
            ~_should_retry_clarification("failed", MAX_CLARIFY_ATTEMPTS, t))

\* The fourth attempt of a capture, admitted exactly two hours after the third.
C25_Witness ==
    /\ cl.pc = "llm"
    /\ clarify_attempt_count[cl.cur] = 4
    /\ cl.since = 2 * 60 * 60

\* C26: no capture gets more than MAX_CLARIFY_ATTEMPTS attempts, and a capture
\* that is failed has had fewer.
C26_AttemptsBounded ==
    \A c \in Captures :
       /\ clarify_attempt_count[c] <= MAX_CLARIFY_ATTEMPTS
       /\ clarify_status[c] = "failed" => clarify_attempt_count[c] < MAX_CLARIFY_ATTEMPTS

C26_Witness ==
    \E c \in Captures :
       /\ clarify_attempt_count[c] = MAX_CLARIFY_ATTEMPTS
       /\ clarify_status[c] = "permanently_failed"
       /\ cl.pc = "idle"

\* C23: a form saved with the is_next_action checkbox set and a next action
\* stores type next_action and the next action as clarified_text.
C23_CheckboxOverridesProject ==
    (/\ form_save.called
     /\ form_save.form.is_next_action = "on"
     /\ form_save.form.next_action # "") =>
        /\ form_save.clar.type = "next_action"
        /\ form_save.clar.clarified_text = form_save.form.next_action

\* The step of the commit worker that stores the outcome of a failed attempt.
StoresFailure == cw.pc = "finish" /\ cw.exc # NoExc /\ cw'.pc # "finish"

\* C27: a first attempt for a non-project capture in which an rtm.tasks.add
\* request timed out, and which failed, leaves commit_status unknown.
C27_TimeoutEndsUnknown ==
    [][(/\ StoresFailure
        /\ cw.entries = 1
        /\ cw.attempt = 1
        /\ add_timed_out[cw.cur]) => commit_status'[cw.cur] = "unknown"]_vars

\* The exceptions of the retryable classes: breaker open, network, server.
IsRetryableError(exc) ==
    \/ exc = ExcCircuit
    \/ exc.etype = "ConnectionError"
    \/ exc.etype = "HTTPError" /\ "server" \in exc.msg

\* C28: an attempt for a non-project capture that fails with a retryable error
\* leaves commit_status failed below MAX_COMMIT_ATTEMPTS attempts and
\* permanently_failed at MAX_COMMIT_ATTEMPTS.
C28_RetryableEndsFailed ==
    [][(/\ StoresFailure
        /\ cw.entries = 1
        /\ IsRetryableError(cw.exc)) =>
          commit_status'[cw.cur] = IF cw.attempt < MAX_COMMIT_ATTEMPTS
                                   THEN "failed" ELSE "permanently_failed"]_vars

\* C29: a failed attempt for a project leaves commit_status unknown whatever
\* the exception and the attempt number, and the worker starts no attempt for a
\* capture whose commit_status is unknown.
C29_ProjectFailureIsUnknown ==
    /\ [][(StoresFailure /\ cw.entries = 2) => commit_status'[cw.cur] = "unknown"]_vars
    /\ [][\A c \in Captures :
            commit_status[c] = "unknown" =>
               ~(cw.pc = "loop" /\ cw'.pc = "http" /\ cw'.cur = c)]_vars

\* The project task was created, its first action was not, and the capture is
\* left unknown.
C29_Witness ==
    \E c \in Captures :
       /\ clarify_json[c].type = "project"
       /\ rtm_tasks[c][1] = 1
       /\ rtm_tasks[c][2] = 0
       /\ commit_status[c] = "unknown"
       /\ cw.pc = "idle"

\* C30: a committed capture carries the id of the task that RTM created for
\* its first commit entry in the request whose answer add_task returned, and no
\* step changes the id of a capture whose commit_status is unknown.
C30_CommittedHasTaskIds ==
    /\ [](\A c \in Captures :
            commit_status[c] = "committed" =>
               /\ rtm_task_id[c] # 0
               /\ rtm_task_id[c] = rtm_tasks[c][1])
    /\ [][\A c \in Captures :
            commit_status[c] = "unknown" => rtm_task_id'[c] = rtm_task_id[c]]_vars

\* A committed project (two tasks) next to a capture left unknown.
C30_Witness ==
    \E c, d \in Captures :
       /\ commit_status[c] = "committed"
       /\ rtm_task_id[c] = 1
       /\ rtm_tasks[c][2] = 1
       /\ commit_status[d] = "unknown"
       /\ rtm_task_id[d] = 0

\* C31: a commit attempt of a non-project capture that ends in an authentication
\* error (HTTP 401/403, or an RTM error that names the auth token) stores
\* commit_status auth_failed and leaves commit_attempt_count as it was.
C31_AuthFailureOutsideBudget ==
    [][(CommitFinish /\ cw.entries = 1 /\ cw.exc \in {ExcHttpAuth, ExcRtmAuth}) =>
          /\ commit_status'[cw.cur] = "auth_failed"
          /\ commit_attempt_count'[cw.cur] = commit_attempt_count[cw.cur]]_vars

\* C33: one call through retry_with_backoff invokes the wrapped function at most
\* max_retries + 1 times; a refused call (breaker open) and an HTTP 401/403 end
\* the call at once with that exception; a timeout, connection error or HTTP 5xx
\* is followed by one more invocation while fewer than max_retries retries were
\* made, and ends the call with that last exception otherwise.
C33_RetryBudget ==
    /\ [](InHttp => cw.try <= max_retries)
    /\ [][(HttpRefused \/ HttpAuthError) =>
             /\ cw'.pc # "http"
             /\ cw.method # "rtm.tasks.getList" =>
                   cw'.exc = IF CbRefuses(cb) THEN ExcCircuit ELSE ExcHttpAuth]_vars
    /\ [][(HttpTimeout \/ HttpRetryable) =>
             IF cw.try < max_retries
             THEN cw' = [cw EXCEPT !.try = cw.try + 1]
             ELSE /\ cw'.pc # "http"
                  /\ cw.method # "rtm.tasks.getList" =>
                        cw'.exc \in {ExcTimeout} \cup
                                    {ExcConnection(u) : u \in BOOLEAN} \cup
                                    {ExcServer(u) : u \in BOOLEAN}]_vars

\* Four timeouts in a row from a fresh breaker ended the call.
C33_Witness ==
    /\ cw.pc = "finish"
    /\ cw.exc = ExcTimeout
    /\ cb.failure_count = max_retries + 1
    /\ cb.state = "CLOSED"

\* C34: while the anchor manager is calling RTM (the existence query, the
\* timeline, the reminder), the store holds an active anchor row for the day
\* the manager works on.
C34_AnchorRowBeforeQuery ==
    (InHttp /\ cw.ctx = "anchor") =>
       \E i \in 1..Len(anchors) : ActiveFor(anchors[i], cw.a_today)

\* A step in which the anchor manager sends an rtm.tasks.add request.
SendsAnchorAdd ==
    /\ AddsAnchorTask
    /\ HttpOk \/ HttpRtmFail \/ HttpTimeout \/ HttpRetryable \/ HttpAuthError

\* C35: the reminder's rtm.tasks.add request is sent at most once per day: it
\* is the first request for the day's only anchor row, whose external_state is
\* still empty; and a creation that raised leaves that row unknown.
C35_OneReminderCreationPerDay ==
    /\ [](\A i, j \in 1..Len(anchors) :
             anchors[i].valid_until = anchors[j].valid_until => i = j)
    /\ [][SendsAnchorAdd =>
             /\ cw.try = 0
             /\ anchors[Len(anchors)].valid_until = cw.a_today
             /\ anchors[Len(anchors)].external_state = "null"]_vars
    /\ [][(AnchorFinish /\ cw.exc # NoExc) =>
             anchors'[Len(anchors)].external_state = "unknown"]_vars

\* C40: the wait required before re-attempt k does not shrink as k grows: a
\* failed capture admitted to its n-th attempt has waited at least the delay of
\* every earlier re-attempt 2..n since its last failure.
C40_WaitNonDecreasing ==
    [][\A c \in Captures :
          (clarify_status[c] = "failed" /\ clarify_status'[c] = "in_progress") =>
             \A k \in 2..clarify_attempt_count'[c] : cl'.since >= RetryDelay(k)]_vars

\* C37: a committed capture stays committed in every step, and no rtm.tasks.add
\* request is sent for a capture that already carries the id of its RTM task.
C37_CommittedIsFinal ==
    /\ [][\A c \in Captures :
             commit_status[c] = "committed" => commit_status'[c] = "committed"]_vars
    /\ [][\A c \in Captures : rtm_task_id[c] # 0 => ~SendsAdd(c)]_vars

\* C38: no step of the clarification worker changes a clarify_json that was
\* stored through update_clarification.
C38_ManualClarificationKept ==
    [][\A c \in Captures :
          (clarify_json[c] \in ManualJsons /\ ClarifierStep) =>
             clarify_json'[c] = clarify_json[c]]_vars

\* A capture the commit worker can process: selected by the poll, with a
\* clarification it can read.
Committable(c) ==
    /\ CommitFilter(c)
    /\ ~StripRaises(clarify_json[c])
    /\ ~MissingShortname(clarify_json[c])

\* C32 (commit worker): under fair polling every capture that is ready to
\* commit is eventually attempted, whatever happens to the other captures.
C32_OthersEventuallyAttempted ==
    \A c \in Captures : Committable(c) ~> (cw.cur = c \/ ~Committable(c))

\* C39: whenever no thread is inside _on_success or _on_failure, an OPEN
\* breaker has at least failure_threshold failures counted and a CLOSED one
\* has fewer.
C39_BreakerStateMatchesCount ==
    (\A t \in ThreadIds : threads[t].pc \in {"idle", "func"}) =>
       /\ cb.state = "OPEN" => cb.failure_count >= failure_threshold
       /\ cb.state = "CLOSED" => cb.failure_count < failure_threshold

\* C36: the job selects at most FINAL_SELECT tasks, all from the candidate
\* pool and from the list that passed verification; step 6 adds one to
\* times_suggested and sets last_suggested_at to now for each selected task,
\* whether its tag call failed or not, and no step changes these two columns
\* of any other row.
C36_SuggestionMetadataForSelected ==
    /\ [](/\ Cardinality(hl_run.selected) <= FINAL_SELECT
          /\ hl_run.selected \subseteq Range(hl_run.valid)
          /\ Range(hl_run.valid) \subseteq Range(candidates.ids))
    /\ [][\A i \in DOMAIN task_cache :
             IF hl_run.pc = "persist" /\ i \in hl_run.selected
             THEN /\ task_cache'[i].times_suggested = task_cache[i].times_suggested + 1
                  /\ task_cache'[i].last_suggested_at = utcnow
             ELSE /\ task_cache'[i].times_suggested = task_cache[i].times_suggested
                  /\ task_cache'[i].last_suggested_at = task_cache[i].last_suggested_at]_vars

\* A finished run with more valid tasks than it may select, a tag call that
\* failed, and the metadata written for the selected tasks only.
C36_Witness ==
    /\ hl_run.pc = "done"
    /\ Cardinality(hl_run.selected) = FINAL_SELECT
    /\ Len(hl_run.valid) > FINAL_SELECT
    /\ hl_run.tag_failed # {}
    /\ \E i \in Range(hl_run.valid) :
          i \notin hl_run.selected /\ task_cache[i].last_suggested_at # utcnow
    /\ \A i \in hl_run.selected : task_cache[i].last_suggested_at = utcnow
    /\ \E i \in hl_run.selected : task_cache[i].times_suggested = 2

====
